---- MODULE Spec2Model ----
(***************************************************************************)
(* Model of the Spotify MCP server: the session / token lifecycle          *)
(* (getValidAccessToken, spotifyApiRequest), the tool dispatcher with its  *)
(* authentication gate, and the OAuth callback handler of                  *)
(* src/src/server/server.ts, plus the stateless RPC variant of             *)
(* src/src/worker.ts.                                                      *)
(*                                                                         *)
(* Every await of the source is a point where other requests and the clock *)
(* may interleave; the code between two awaits is one atomic action.       *)
(* Strings that the code lower-cases, searches or encodes are sequences of *)
(* one-character strings (the search query); every other string is a TLA+ *)
(* string.  Values of tool arguments and query parameters are tagged with  *)
(* their JavaScript type.                                                  *)
(***************************************************************************)
EXTENDS Integers, Sequences, FiniteSets, TLC

(***************************************************************************)
(* Bounds of the model.                                                    *)
(***************************************************************************)
\* number of clock advances explored
MaxTicks == 2
\* number of authorization states the gate may generate
MaxStates == 2
\* number of tokens the token endpoint grants
MaxGrants == 3
\* the clock advances in steps of ten minutes (milliseconds)
TickMs == 10 * 60 * 1000

SessionIds == {"s1", "s2"}
\* request slots: one tool call and one callback request are served at a time
Calls == {"c1"}
Callbacks == {"b1"}
\* request slots of two callback requests served at the same time
RaceCallbacks == {"b1", "b2"}
\* request slots of two tool calls served at the same time
RaceCalls == {"c1", "c2"}
\* the SSE connections the streaming server may accept; each transport's
\* sessionId (a fresh randomUUID) is modelled by the transport's own name
TransportIds == {"t1", "t2"}
\* request slots of the POST /mcp/messages requests served at the same time
Posts == {"p1", "p2"}
\* expires_in values (seconds) the token endpoint may return
ExpiresIn == {0, 600}

(***************************************************************************)
(* JavaScript values.                                                      *)
(***************************************************************************)
Undefined == [t |-> "undefined"]
Null == [t |-> "null"]
Num(n) == [t |-> "number", v |-> n]
Str(s) == [t |-> "string", v |-> s]
Arr(a) == [t |-> "array", v |-> a]

\* JavaScript truthiness of a tagged value (used by "a || b" and "!a"); it is
\* never applied to the search query
Truthy(x) ==
  CASE "t" \notin DOMAIN x -> TRUE
    [] x.t = "undefined" -> FALSE
    [] x.t = "null" -> FALSE
    [] x.t = "number" -> x.v # 0
    [] x.t = "string" -> x.v # ""
    [] OTHER -> TRUE

\* a || b
OrElse(a, b) == IF Truthy(a) THEN a ELSE b

(***************************************************************************)
(* Character strings: "find me an audiobook" is Chars of its letters.      *)
(***************************************************************************)
Lower(ch) ==
  CASE ch = "A" -> "a" [] ch = "B" -> "b" [] ch = "D" -> "d"
    [] ch = "I" -> "i" [] ch = "K" -> "k" [] ch = "O" -> "o"
    [] ch = "U" -> "u" [] ch = "J" -> "j" [] ch = "Z" -> "z"
    [] OTHER -> ch

\* String.prototype.toLowerCase
ToLowerCase(s) == [i \in 1..Len(s) |-> Lower(s[i])]

\* String.prototype.includes
Includes(s, needle) ==
  \E i \in 1..(Len(s) - Len(needle) + 1) :
    SubSeq(s, i, i + Len(needle) - 1) = needle

RECURSIVE EncodeURIComponent(_)
\* encodeURIComponent on the alphabet of the model: letters are kept, a
\* space becomes %20
EncodeURIComponent(s) ==
  IF s = <<>> THEN <<>>
  ELSE (IF Head(s) = " " THEN <<"%", "2", "0">> ELSE <<Head(s)>>)
         \o EncodeURIComponent(Tail(s))

Audiobook == <<"a", "u", "d", "i", "o", "b", "o", "o", "k">>

RECURSIVE Join(_, _)
\* Array.prototype.join: the elements with the separator between them
Join(a, sep) ==
  IF Len(a) = 0 THEN <<>>
  ELSE IF Len(a) = 1 THEN <<a[1]>>
  ELSE <<a[1], sep>> \o Join(Tail(a), sep)

(***************************************************************************)
(* Map: a function whose domain is the set of keys present.                *)
(***************************************************************************)
EmptyMap == [k \in {} |-> Undefined]
MapHas(m, k) == k \in DOMAIN m
MapGet(m, k) == IF k \in DOMAIN m THEN m[k] ELSE Undefined
MapSet(m, k, v) == [x \in (DOMAIN m) \cup {k} |-> IF x = k THEN v ELSE m[x]]
MapDeleteNone(m, k) == m

MapDelete(m, k) == [x \in (DOMAIN m) \ {k} |-> m[x]]

(***************************************************************************)
(* State.                                                                  *)
(***************************************************************************)
VARIABLES
  now,                \* Date.now(), milliseconds
  authSessions,       \* Map sessionId -> {accessToken, refreshToken, expiresAt}
  pendingAuthStates,  \* Map state -> {sessionId, createdAt}
  nextState,          \* index of the next value of crypto.randomBytes(16)
  calls,              \* the CallTool requests being served by the streaming server
  callbacks,          \* the /auth/callback requests being served
  kv,                 \* worker: the SPOTIFY_TOKENS namespace, userId -> token record
  wcalls,             \* worker: the tools/call requests being served
  granted,            \* upstream: how many tokens the token endpoint has granted
  consumed,           \* history: the states whose callback has stored a Session
  widget,             \* the search widget: the property bag it was given and what it shows
  issued,             \* history: state -> the session id the gate recorded for it
  sessionRecords,     \* the sessions Map: transport.sessionId -> {server, transport}
  transports,         \* the SSE transports: how far each connection has come
  posts               \* the POST /mcp/messages requests being served

vars == <<now, authSessions, pendingAuthStates, nextState, calls, callbacks, kv, wcalls, granted, consumed, widget, issued, sessionRecords, transports, posts>>
serverVars == <<authSessions, pendingAuthStates, nextState, calls, callbacks, consumed>>
workerVars == <<kv, wcalls>>
sseVars == <<sessionRecords, transports, posts>>

(***************************************************************************)
(* Tool arguments and the zod parsers.                                     *)
(***************************************************************************)
ItemTypeEnum == {"track", "album", "artist", "playlist", "show", "episode"}

NoArguments ==
  [itemType |-> Undefined, itemId |-> Undefined, playlistId |-> Undefined,
   offset |-> Undefined, limit |-> Undefined, query |-> Undefined,
   types |-> Undefined, market |-> Undefined]

OptionalString(x) == x.t \in {"undefined", "string"}
OptionalNumber(x) == x.t \in {"undefined", "number"}
OptionalNumberMax(x, max) == x.t = "undefined" \/ (x.t = "number" /\ x.v <= max)

AddToLibraryParserAnyType(a) ==
  /\ a.itemType.t = "string"
  /\ a.itemId.t = "string"

AddToLibraryParser(a) ==
  /\ a.itemType.t = "string"
  /\ a.itemType.v \in ItemTypeEnum
  /\ a.itemId.t = "string"

RemoveFromLibraryParser(a) ==
  /\ a.itemType.t = "string"
  /\ a.itemType.v \in ItemTypeEnum
  /\ a.itemId.t = "string"

FetchTracksLimitMax == 100
SearchLimitMax == 50

FetchTracksParserUncapped(a) ==
  /\ a.playlistId.t = "string"
  /\ OptionalNumber(a.offset)
  /\ OptionalNumber(a.limit)

FetchTracksParser(a) ==
  /\ a.playlistId.t = "string"
  /\ OptionalNumber(a.offset)
  /\ OptionalNumberMax(a.limit, FetchTracksLimitMax)

SearchParserUncapped(a) ==
  /\ a.query.t = "string"
  /\ \/ a.types.t = "undefined"
     \/ /\ a.types.t = "array"
        /\ \A i \in 1..Len(a.types.v) : a.types.v[i] \in ItemTypeEnum
  /\ OptionalNumber(a.limit)
  /\ OptionalString(a.market)

SearchParser(a) ==
  /\ a.query.t = "string"
  /\ \/ a.types.t = "undefined"
     \/ /\ a.types.t = "array"
        /\ \A i \in 1..Len(a.types.v) : a.types.v[i] \in ItemTypeEnum
  /\ OptionalNumberMax(a.limit, SearchLimitMax)
  /\ OptionalString(a.market)

LibraryEndpointArtists(itemType) ==
  CASE itemType = "track" -> <<"/me/tracks">>
    [] itemType = "album" -> <<"/me/albums">>
    [] itemType = "artist" -> <<"/me/artists">>
    [] itemType = "show" -> <<"/me/shows">>
    [] itemType = "episode" -> <<"/me/episodes">>
    [] OTHER -> <<>>

\* the endpoint chosen by the inner switch; <<>> is the default branch (throw)
LibraryEndpoint(itemType) ==
  CASE itemType = "track" -> <<"/me/tracks">>
    [] itemType = "album" -> <<"/me/albums">>
    [] itemType = "artist" -> <<"/me/following?type=artist">>
    [] itemType = "show" -> <<"/me/shows">>
    [] itemType = "episode" -> <<"/me/episodes">>
    [] OTHER -> <<>>

IsAudiobookQueryExact(query) == Includes(query, Audiobook)

\* args.query.toLowerCase().includes("audiobook")
IsAudiobookQuery(query) == Includes(ToLowerCase(query), Audiobook)

DefaultTypes == <<"track", "album", "artist", "playlist">>
DefaultSearchLimit == 20
DefaultFetchLimit == 100

AudiobookRefusal ==
  <<"You can't search audiobooks on Spotify yet. Try the Spotify app, or search for something else.">>

(***************************************************************************)
(* Upstream: what the token endpoint and the REST API may answer.          *)
(***************************************************************************)
Json(v) == [t |-> "json", v |-> v]

\* The token endpoint grants a fresh access token (and, for a code, a fresh
\* refresh token) with every successful answer: the n-th grant.
AccessToken(n) == <<"access", n>>
RefreshToken(n) == <<"refresh", n>>

TokenFailure == [status |-> 400, statusText |-> "Bad Request", json |-> Undefined]

\* answers of POST /api/token with grant_type=refresh_token, the n-th grant
RefreshResponses(n) ==
  {TokenFailure}
    \cup {[status |-> 200, statusText |-> "OK",
           json |-> [access_token |-> AccessToken(n), expires_in |-> e]] : e \in ExpiresIn}

\* answers of POST /api/token with grant_type=authorization_code, the n-th grant
ExchangeResponses(n) ==
  {TokenFailure}
    \cup {[status |-> 200, statusText |-> "OK",
           json |-> [access_token |-> AccessToken(n), refresh_token |-> RefreshToken(n),
                     expires_in |-> e]] : e \in ExpiresIn}

\* playlist pages: the track ids of data.items, in page order
PageBodies == {Json([items |-> <<>>, total |-> 0]), Json([items |-> <<"t1", "t2">>, total |-> 7])}
\* answers of /me/tracks/contains
SavedBodies == {Json(<<TRUE, FALSE>>), Json(<<FALSE>>)}
\* search results: facet -> the ids of its items
SearchBodies ==
  {Json([tracks |-> <<"i1", "i2">>, artists |-> <<"i3">>]), Json([shows |-> <<"i4">>])}
LibraryBodies == {Json(<<>>)}

\* fetch's response.ok
ResponseOk(response) == response.status >= 200 /\ response.status <= 299

(***************************************************************************)
(* Token lifecycle (server.ts: getValidAccessToken, spotifyApiRequest).    *)
(***************************************************************************)
IsExpiredStrict(session, t) == t > session.expiresAt

\* Date.now() >= session.expiresAt
IsExpired(session, t) == t >= session.expiresAt

RefreshedSessionStale(session, tokenData, t) ==
  [session EXCEPT !.expiresAt = t + tokenData.expires_in * 1000]

RefreshedSessionSeconds(session, tokenData, t) ==
  [session EXCEPT !.accessToken = tokenData.access_token,
                  !.expiresAt = t + tokenData.expires_in]

\* session.accessToken = tokenData.access_token;
\* session.expiresAt = Date.now() + tokenData.expires_in * 1000
RefreshedSession(session, tokenData, t) ==
  [session EXCEPT !.accessToken = tokenData.access_token,
                  !.expiresAt = t + tokenData.expires_in * 1000]

NewSessionSeconds(tokenData, t) ==
  [accessToken |-> tokenData.access_token,
   refreshToken |-> tokenData.refresh_token,
   expiresAt |-> t + tokenData.expires_in]

\* the record handleAuthCallback stores after the code exchange
NewSession(tokenData, t) ==
  [accessToken |-> tokenData.access_token,
   refreshToken |-> tokenData.refresh_token,
   expiresAt |-> t + tokenData.expires_in * 1000]

IdleCall ==
  [pc |-> "idle", sessionId |-> "", name |-> "", arguments |-> NoArguments,
   session |-> Undefined,   \* getValidAccessToken's local "session" while it awaits
   pendingReq |-> Undefined,\* spotifyApiRequest's parameters while the token is awaited
   log |-> <<>>,            \* the outbound HTTP calls of this tool call, in order
   data |-> Undefined,      \* fetch_tracks: the playlist page
   result |-> Undefined]

Content(text, structured) == [kind |-> "content", text |-> text, structured |-> structured]
Thrown(error, detail) == [kind |-> "error", error |-> error, detail |-> detail]

\* the handler returns or throws: the tool call is over
Finish(cr, result) ==
  [cr EXCEPT !.pc = "done", !.result = result, !.session = Undefined,
             !.pendingReq = Undefined, !.data = Undefined]

TokenEndpoint == <<"https://accounts.spotify.com/api/token">>

\* the fetch of refreshAccessToken
SendRefresh(cr, session, req) ==
  [cr EXCEPT !.pc = "refresh",
             !.pendingReq = req,
             !.session = session,
             !.log = Append(@, [kind |-> "refresh", method |-> "POST",
                                endpoint |-> TokenEndpoint,
                                body |-> [grant_type |-> "refresh_token",
                                          refresh_token |-> session.refreshToken],
                                bearer |-> <<>>,
                                status |-> 0, json |-> Undefined])]

OnRefreshFailureRetry(cr, tokenResponse) == SendRefresh(cr, cr.session, cr.pendingReq)

NotAuthenticated ==
  Thrown("NotAuthenticated", <<"Not authenticated. Please authenticate with Spotify first.">>)

\* refreshAccessToken on a response that is not ok: the error is thrown
OnRefreshFailure(cr, tokenResponse) ==
  Finish(cr, Thrown("TokenRefreshFailed",
                    <<"Failed to refresh token: ", tokenResponse.statusText>>))

\* the bearer-authenticated fetch of spotifyApiRequest
SendRest(cr, accessToken, req) ==
  [cr EXCEPT !.pc = "rest",
             !.pendingReq = Undefined,
             !.session = Undefined,
             !.log = Append(@, [kind |-> "rest", method |-> req.method,
                                endpoint |-> req.endpoint, body |-> req.body,
                                bearer |-> accessToken,
                                status |-> 0, json |-> Undefined])]

\* spotifyApiRequest up to its first await that leaves the process:
\* getValidAccessToken reads the store, and either returns the stored token
\* (the REST call is issued) or issues the refresh call
SpotifyApiRequest(cr, sessions, t, endpoint, method, body) ==
  LET req == [endpoint |-> endpoint, method |-> method, body |-> body]
  IN IF ~MapHas(sessions, cr.sessionId)
       THEN Finish(cr, NotAuthenticated)
       ELSE LET session == sessions[cr.sessionId]
            IN IF IsExpired(session, t)
                 THEN SendRefresh(cr, session, req)
                 ELSE SendRest(cr, session.accessToken, req)

\* spotifyApiRequest of server.ts, on the store and the clock as they are
ServerApi(cr, endpoint, method, body) ==
  SpotifyApiRequest(cr, authSessions, now, endpoint, method, body)

\* spotifyApiRequest of worker.ts up to its first await: the read of the
\* token record
WorkerApi(cr, endpoint, method, body) ==
  [cr EXCEPT !.pc = "kvget",
             !.pendingReq = [endpoint |-> endpoint, method |-> method, body |-> body]]

\* spotifyApiRequest of the variant ("server" or "worker") the handler runs in
Api(variant, cr, endpoint, method, body) ==
  IF variant = "server" THEN ServerApi(cr, endpoint, method, body)
  ELSE WorkerApi(cr, endpoint, method, body)

(***************************************************************************)
(* Tool handlers (server.ts: the CallToolRequestSchema handler).           *)
(***************************************************************************)
Bool(b) == [t |-> "boolean", v |-> b]

\* the facets the search case reshapes
ReshapedFacets == {"tracks", "albums", "artists", "playlists"}

\* generateAuthUrl: the authorize URL and its query parameters
GenerateAuthUrl(state) ==
  [base |-> "https://accounts.spotify.com/authorize", response_type |-> "code",
   state |-> state, show_dialog |-> "true"]

ZodError == Thrown("ZodError", <<"invalid arguments">>)

\* The handlers below are the same text in server.ts and worker.ts; variant
\* names the one they run in.

\* one library mutation: parse, choose the endpoint, call upstream
LibraryCase(cr, variant, valid, method) ==
  IF ~valid THEN Finish(cr, ZodError)
  ELSE LET endpoint == LibraryEndpoint(cr.arguments.itemType.v)
       IN IF endpoint = <<>>
            THEN Finish(cr, Thrown("Error",
                   <<"Unsupported item type: ", cr.arguments.itemType.v>>))
            ELSE Api(variant, cr, endpoint, method, [ids |-> <<cr.arguments.itemId.v>>])

FetchTracksCase(cr, variant) ==
  LET args == cr.arguments
  IN IF ~FetchTracksParser(args) THEN Finish(cr, ZodError)
     ELSE Api(variant, cr,
            <<"/playlists/", args.playlistId.v, "/tracks?offset=",
              OrElse(args.offset, Num(0)).v, "&limit=",
              OrElse(args.limit, Num(DefaultFetchLimit)).v>>,
            "GET", Undefined)

SearchCase(cr, variant) ==
  LET args == cr.arguments
  IN IF ~SearchParser(args) THEN Finish(cr, ZodError)
     ELSE IF IsAudiobookQuery(args.query.v)
       THEN Finish(cr, Content(AudiobookRefusal, Undefined))
       ELSE LET types == OrElse(args.types, Arr(DefaultTypes)).v
                limit == OrElse(args.limit, Num(DefaultSearchLimit)).v
                market == OrElse(args.market, Str("US")).v
            IN Api(variant, cr,
                 <<"/search?q=", EncodeURIComponent(args.query.v), "&type=",
                   Join(types, ","), "&limit=", limit, "&market=", market>>,
                 "GET", Undefined)

\* the switch over toolName, up to the first outbound call
Dispatch(cr, variant) ==
  CASE cr.name = "add_to_library" ->
         LibraryCase(cr, variant, AddToLibraryParser(cr.arguments), "PUT")
    [] cr.name = "remove_from_library" ->
         LibraryCase(cr, variant, RemoveFromLibraryParser(cr.arguments), "DELETE")
    [] cr.name = "fetch_tracks" -> FetchTracksCase(cr, variant)
    [] cr.name = "search" -> SearchCase(cr, variant)
    [] OTHER -> Finish(cr, Thrown("Error", <<"Unknown tool: ", cr.name>>))

TypeErrorThrown == Thrown("TypeError", <<"Cannot read properties of null">>)

FetchTracksResultFirstFlag(cr, savedStatus) ==
  LET items == cr.data.v.items
      tracks == [i \in 1..Len(items) |->
                   [id |-> items[i],
                    is_saved |-> IF 1 <= Len(savedStatus.v)
                                   THEN Bool(savedStatus.v[1]) ELSE Undefined]]
  IN Content(<<"Loaded ", Len(tracks), " tracks from playlist.">>,
             [playlistId |-> cr.arguments.playlistId.v, tracks |-> tracks,
              total |-> cr.data.v.total])

\* fetch_tracks after the saved-status call: zip the page with savedStatus
FetchTracksResult(cr, savedStatus) ==
  LET items == cr.data.v.items
      tracks == [i \in 1..Len(items) |->
                   [id |-> items[i],
                    is_saved |-> IF i <= Len(savedStatus.v)
                                   THEN Bool(savedStatus.v[i]) ELSE Undefined]]
  IN Content(<<"Loaded ", Len(tracks), " tracks from playlist.">>,
             [playlistId |-> cr.arguments.playlistId.v, tracks |-> tracks,
              total |-> cr.data.v.total])

RECURSIVE CountItems(_, _)
CountItems(results, facets) ==
  IF facets = {} THEN 0
  ELSE LET f == CHOOSE x \in facets : TRUE
       IN Len(results[f]) + CountItems(results, facets \ {f})

SearchResult(cr, searchResults) ==
  LET present == (DOMAIN searchResults.v) \cap ReshapedFacets
      results == [f \in present |->
                    [i \in 1..Len(searchResults.v[f]) |-> [id |-> searchResults.v[f][i]]]]
  IN Content(<<"Found ", CountItems(results, present), " results for ",
               cr.arguments.query.v>>,
             [query |-> cr.arguments.query.v, results |-> results])

\* the handler after spotifyApiRequest has returned value
OnRestValue(cr, value, variant) ==
  CASE cr.name = "add_to_library" ->
         Finish(cr, Content(<<"Successfully added ", cr.arguments.itemType.v,
                              " to your library.">>, Undefined))
    [] cr.name = "remove_from_library" ->
         Finish(cr, Content(<<"Successfully removed ", cr.arguments.itemType.v,
                              " from your library.">>, Undefined))
    [] cr.name = "fetch_tracks" /\ cr.data.t = "undefined" ->
         IF value.t # "json" THEN Finish(cr, TypeErrorThrown)
         ELSE Api(variant, [cr EXCEPT !.data = value],
                <<"/me/tracks/contains?ids=", Join(value.v.items, ",")>>,
                "GET", Undefined)
    [] cr.name = "fetch_tracks" /\ cr.data.t # "undefined" ->
         IF value.t # "json" /\ Len(cr.data.v.items) > 0
           THEN Finish(cr, TypeErrorThrown)
           ELSE Finish(cr, FetchTracksResult(cr,
                  IF value.t = "json" THEN value ELSE Json(<<>>)))
    [] OTHER ->
         IF value.t # "json" THEN Finish(cr, TypeErrorThrown)
         ELSE Finish(cr, SearchResult(cr, value))

\* what upstream may answer to the REST call the tool call is waiting for,
\* given the bodies of a playlist page, a saved-status check and a search
RestResponsesOf(cr, pages, saved, found) ==
  LET bodies == CASE cr.name \in {"add_to_library", "remove_from_library"} -> LibraryBodies
                  [] cr.name = "fetch_tracks" /\ cr.data.t = "undefined" -> pages
                  [] cr.name = "fetch_tracks" /\ cr.data.t # "undefined" -> saved
                  [] OTHER -> found
  IN {[status |-> 401, body |-> Str("The access token expired")],
      [status |-> 204, body |-> Null]}
       \cup {[status |-> 200, body |-> b] : b \in bodies}

\* a body that is not JSON text: the empty body
EmptyBody == [t |-> "text", v |-> ""]

RestResponses(cr) ==
  RestResponsesOf(cr, PageBodies, SavedBodies, SearchBodies)
    \cup {[status |-> 200, body |-> EmptyBody]}

\* the answers explored together with concurrent requests: one body for each
\* kind of call
CoreRestResponses(cr) ==
  RestResponsesOf(cr, {Json([items |-> <<"t1", "t2">>, total |-> 7])},
                  {Json(<<TRUE, FALSE>>)}, {Json([shows |-> <<"i4">>])})

\* the last entry of the log, with the status and the body that arrived
Answered(log, status, json) ==
  [log EXCEPT ![Len(log)].status = status, ![Len(log)].json = json]

Returned(value) == [kind |-> "value", value |-> value]

\* spotifyApiRequest once the response is there: throw on !response.ok, null
\* on 204, else response.json(), which throws on a body that is not JSON
ApiOutcome(response) ==
  IF ~ResponseOk(response)
    THEN Thrown("UpstreamError",
                <<"Spotify API error: ", response.status, " ", response.body.v>>)
    ELSE IF response.status = 204 THEN Returned(Null)
    ELSE IF response.body.t = "json" THEN Returned(response.body)
    ELSE Thrown("SyntaxError", <<"Unexpected end of JSON input">>)

\* the handler resumes with the outcome of spotifyApiRequest
Resume(cr, outcome, variant) ==
  IF outcome.kind = "error" THEN Finish(cr, outcome)
  ELSE OnRestValue(cr, outcome.value, variant)

(***************************************************************************)
(* Inputs.                                                                 *)
(***************************************************************************)
FindMeAnAudiobook ==
  <<"f", "i", "n", "d", " ", "m", "e", " ", "a", "n", " ",
    "a", "u", "d", "i", "o", "b", "o", "o", "k">>
AudioBookCaps == <<"A", "u", "d", "i", "o", "B", "o", "o", "k">>
AudioSpaceBook == <<"a", "u", "d", "i", "o", " ", "b", "o", "o", "k">>
Jazz == <<"j", "a", "z", "z">>

Tool(name, arguments) == [name |-> name, arguments |-> arguments]

\* the tool invocations explored together with concurrent requests
CoreInputs ==
  {Tool("add_to_library", [NoArguments EXCEPT !.itemType = Str("track"), !.itemId = Str("X")]),
   Tool("fetch_tracks", [NoArguments EXCEPT !.playlistId = Str("P")]),
   Tool("search", [NoArguments EXCEPT !.query = Str(FindMeAnAudiobook)])}

\* the second caller only searches for audiobooks
OtherCallerInputs ==
  {Tool("search", [NoArguments EXCEPT !.query = Str(FindMeAnAudiobook)])}

\* the tool invocations explored one request at a time
ToolInputs ==
  {Tool("add_to_library", [NoArguments EXCEPT !.itemType = Str("track"), !.itemId = Str("X")]),
   Tool("add_to_library", [NoArguments EXCEPT !.itemType = Str("playlist"), !.itemId = Str("X")]),
   Tool("remove_from_library", [NoArguments EXCEPT !.itemType = Str("artist"), !.itemId = Str("X")]),
   Tool("remove_from_library", [NoArguments EXCEPT !.itemType = Str("artist")]),
   Tool("fetch_tracks", [NoArguments EXCEPT !.playlistId = Str("P")]),
   Tool("search", [NoArguments EXCEPT !.query = Str(FindMeAnAudiobook), !.limit = Num(51)]),
   Tool("search", [NoArguments EXCEPT !.query = Str(AudioBookCaps), !.limit = Num(50),
                                      !.types = Arr(<<"show">>), !.market = Str("GB")]),
   Tool("search", [NoArguments EXCEPT !.query = Str(AudioSpaceBook), !.market = Str("GB")]),
   Tool("search", [NoArguments EXCEPT !.query = Str(Jazz), !.types = Arr(<<"show">>)]),
   Tool("play", NoArguments)}

\* every library endpoint with both tools, arguments the schemas reject, and
\* the optional arguments of fetch_tracks and search, given and omitted
HandlerInputs ==
  ToolInputs
    \cup {Tool("add_to_library",
                [NoArguments EXCEPT !.itemType = Str(type), !.itemId = Str("Y")]) :
             type \in {"album", "artist", "show", "episode", "podcast"}}
    \cup {Tool("remove_from_library",
                [NoArguments EXCEPT !.itemType = Str(type), !.itemId = Str("Y")]) :
             type \in {"track", "album", "show", "episode"}}
    \cup {Tool("fetch_tracks", [NoArguments EXCEPT !.playlistId = Num(5)]),
          Tool("fetch_tracks", [NoArguments EXCEPT !.playlistId = Str("P"), !.offset = Num(5),
                                                   !.limit = Num(100)]),
          Tool("fetch_tracks", [NoArguments EXCEPT !.playlistId = Str("P"), !.limit = Num(101)]),
          Tool("search", [NoArguments EXCEPT !.query = Str(Jazz)]),
          Tool("search", [NoArguments EXCEPT !.query = Str(Jazz), !.limit = Num(51)]),
          Tool("search", [NoArguments EXCEPT !.query = Str(Jazz), !.limit = Num(50),
                                             !.market = Str("GB")])}

\* the query parameters of a callback request; "0" is a state never issued
Query(code, state, error) == [code |-> code, state |-> state, error |-> error]

\* the callback of the first authorization prompt
HandlerQueries == {Query(Str("code1"), Str("1"), Null)}
CallbackQueries ==
  {Query(Str("code1"), Str("1"), Str("access_denied")),
   Query(Null, Str("1"), Null),
   Query(Str(""), Str("1"), Null),
   Query(Str("code1"), Null, Null),
   Query(Str("code1"), Str("0"), Null)}
    \cup {Query(Str("code1"), Str(ToString(n)), Null) : n \in 1..MaxStates}

(***************************************************************************)
(* The streaming server: tool calls.                                       *)
(***************************************************************************)
HasSessionAlways(sessions, sessionId) == TRUE

\* authSessions.has(sessionId)
HasSession(sessions, sessionId) == MapHas(sessions, sessionId)

AuthPrompt(state) ==
  Content(<<"Please authenticate with Spotify to use this feature. Visit: ",
            GenerateAuthUrl(state)>>, Undefined)

\* a CallTool request arrives on the connection of sessionId: the
\* authentication gate, then the handler up to its first outbound call
ToolCall(c, sessionId, in) ==
  /\ calls[c].pc = "idle"
  /\ LET cr == [IdleCall EXCEPT !.sessionId = sessionId, !.name = in.name,
                                !.arguments = in.arguments]
     IN IF ~HasSession(authSessions, sessionId)
          THEN /\ nextState <= MaxStates
               /\ LET state == ToString(nextState)
                  IN /\ pendingAuthStates' =
                          MapSet(pendingAuthStates, state,
                                 [sessionId |-> sessionId, createdAt |-> now])
                     /\ calls' = [calls EXCEPT ![c] = Finish(cr, AuthPrompt(state))]
                     /\ issued' = MapSet(issued, state, sessionId)
               /\ nextState' = nextState + 1
          ELSE /\ calls' = [calls EXCEPT ![c] = Dispatch(cr, "server")]
               /\ UNCHANGED <<pendingAuthStates, nextState, issued>>
  /\ UNCHANGED <<now, authSessions, callbacks, kv, wcalls, granted, consumed, widget, sseVars>>

RefreshResponseQueued(c, tokenResponse) ==
  /\ calls[c].pc = "refresh"
  /\ \A d \in DOMAIN calls : d # c => calls[d].pc # "refresh"
  /\ tokenResponse \in RefreshResponses(granted + 1)
  /\ ResponseOk(tokenResponse) => granted < MaxGrants
  /\ granted' = IF ResponseOk(tokenResponse) THEN granted + 1 ELSE granted
  /\ LET cr == [calls[c] EXCEPT
                  !.log = Answered(@, tokenResponse.status, tokenResponse.json)]
     IN IF ~ResponseOk(tokenResponse)
          THEN /\ calls' = [calls EXCEPT ![c] = OnRefreshFailure(cr, tokenResponse)]
               /\ UNCHANGED authSessions
          ELSE LET session == RefreshedSession(cr.session, tokenResponse.json, now)
               IN /\ authSessions' = MapSet(authSessions, cr.sessionId, session)
                  /\ calls' = [calls EXCEPT ![c] =
                       SendRest(cr, session.accessToken, cr.pendingReq)]
  /\ UNCHANGED <<now, pendingAuthStates, nextState, callbacks, kv, wcalls, consumed, widget, issued, sseVars>>

RefreshResponseForgets(c, tokenResponse) ==
  /\ calls[c].pc = "refresh"
  /\ tokenResponse \in RefreshResponses(granted + 1)
  /\ ResponseOk(tokenResponse) => granted < MaxGrants
  /\ granted' = IF ResponseOk(tokenResponse) THEN granted + 1 ELSE granted
  /\ LET cr == [calls[c] EXCEPT
                  !.log = Answered(@, tokenResponse.status, tokenResponse.json)]
     IN IF ~ResponseOk(tokenResponse)
          THEN /\ calls' = [calls EXCEPT ![c] = OnRefreshFailure(cr, tokenResponse)]
               /\ authSessions' = MapDelete(authSessions, cr.sessionId)
          ELSE LET session == RefreshedSession(cr.session, tokenResponse.json, now)
               IN /\ authSessions' = MapSet(authSessions, cr.sessionId, session)
                  /\ calls' = [calls EXCEPT ![c] =
                       SendRest(cr, session.accessToken, cr.pendingReq)]
  /\ UNCHANGED <<now, pendingAuthStates, nextState, callbacks, kv, wcalls, consumed, widget, issued, sseVars>>

\* the token endpoint answers the refresh call of getValidAccessToken
RefreshResponse(c, tokenResponse) ==
  /\ calls[c].pc = "refresh"
  /\ tokenResponse \in RefreshResponses(granted + 1)
  /\ ResponseOk(tokenResponse) => granted < MaxGrants
  /\ granted' = IF ResponseOk(tokenResponse) THEN granted + 1 ELSE granted
  /\ LET cr == [calls[c] EXCEPT
                  !.log = Answered(@, tokenResponse.status, tokenResponse.json)]
     IN IF ~ResponseOk(tokenResponse)
          THEN /\ calls' = [calls EXCEPT ![c] = OnRefreshFailure(cr, tokenResponse)]
               /\ UNCHANGED authSessions
          ELSE LET session == RefreshedSession(cr.session, tokenResponse.json, now)
               IN /\ authSessions' = MapSet(authSessions, cr.sessionId, session)
                  /\ calls' = [calls EXCEPT ![c] =
                       SendRest(cr, session.accessToken, cr.pendingReq)]
  /\ UNCHANGED <<now, pendingAuthStates, nextState, callbacks, kv, wcalls, consumed, widget, issued, sseVars>>

\* the REST API answers the call of spotifyApiRequest; the handler resumes
RestResponse(c, response) ==
  /\ calls[c].pc = "rest"
  /\ LET cr == [calls[c] EXCEPT !.log = Answered(@, response.status, response.body)]
     IN calls' = [calls EXCEPT ![c] = Resume(cr, ApiOutcome(response), "server")]
  /\ UNCHANGED <<now, authSessions, pendingAuthStates, nextState, callbacks, kv, wcalls, granted, consumed, widget, issued, sseVars>>

\* the result has been sent; the slot serves the next request
CallReturn(c) ==
  /\ calls[c].pc = "done"
  /\ calls' = [calls EXCEPT ![c] = IdleCall]
  /\ UNCHANGED <<now, authSessions, pendingAuthStates, nextState, callbacks, kv, wcalls, granted, consumed, widget, issued, sseVars>>

(***************************************************************************)
(* The streaming server: handleAuthCallback.                               *)
(***************************************************************************)
TenMinutes == 10 * 60 * 1000

SweepOldInclusive(pending, t) ==
  [k \in {x \in DOMAIN pending : ~(t - pending[x].createdAt >= TenMinutes)} |-> pending[k]]

\* for (const [key, value] of pendingAuthStates.entries())
\*   if (now - value.createdAt > 10 * 60 * 1000) pendingAuthStates.delete(key)
SweepOld(pending, t) ==
  [k \in {x \in DOMAIN pending : ~(t - pending[x].createdAt > TenMinutes)} |-> pending[k]]

MissingParameterBoth(code, state) == ~Truthy(code) /\ ~Truthy(state)

\* !code || !state
MissingParameter(code, state) == ~Truthy(code) \/ ~Truthy(state)

\* pendingAuthStates.get(state), state being a string or null
PendingAuthOfAny(pending, state) ==
  IF DOMAIN pending = {} THEN Undefined
  ELSE pending[CHOOSE k \in DOMAIN pending : TRUE]

PendingAuthOf(pending, state) ==
  IF state.t = "string" THEN MapGet(pending, state.v) ELSE Undefined

IdleCallback ==
  [pc |-> "idle", code |-> Null, state |-> Null, error |-> Null,
   pendingAuth |-> Undefined, \* the local "pendingAuth"
   exchanges |-> 0,           \* token-exchange calls issued by this invocation
   tokenResponse |-> Undefined, \* the answer of the token endpoint
   response |-> Undefined]

Page(status, body) == [status |-> status, body |-> body]

Respond(cb, status, body) == [cb EXCEPT !.pc = "done", !.response = Page(status, body)]

\* GET /auth/callback?code=..&state=..&error=.. up to the code exchange
CallbackStart(b, code, state, error) ==
  /\ callbacks[b].pc = "idle"
  /\ LET cb == [IdleCallback EXCEPT !.code = code, !.state = state, !.error = error]
     IN IF Truthy(error)
          THEN /\ callbacks' = [callbacks EXCEPT ![b] = Respond(cb, 400, "Authentication Failed")]
               /\ UNCHANGED pendingAuthStates
          ELSE IF MissingParameter(code, state)
            THEN /\ callbacks' = [callbacks EXCEPT ![b] =
                      Respond(cb, 400, "Missing code or state parameter")]
                 /\ UNCHANGED pendingAuthStates
            ELSE IF ~Truthy(PendingAuthOf(pendingAuthStates, state))
              THEN /\ callbacks' = [callbacks EXCEPT ![b] =
                        Respond(cb, 400, "Invalid or expired state parameter")]
                   /\ UNCHANGED pendingAuthStates
              ELSE /\ pendingAuthStates' = SweepOld(pendingAuthStates, now)
                   /\ callbacks' = [callbacks EXCEPT ![b] =
                        [cb EXCEPT !.pc = "exchange",
                                   !.pendingAuth = PendingAuthOf(pendingAuthStates, state),
                                   !.exchanges = @ + 1]]
  /\ UNCHANGED <<now, authSessions, nextState, calls, kv, wcalls, granted, consumed, widget, issued, sseVars>>

ExchangeResponseForgetsState(b, tokenResponse) ==
  /\ callbacks[b].pc = "exchange"
  /\ tokenResponse \in ExchangeResponses(granted + 1)
  /\ ResponseOk(tokenResponse) => granted < MaxGrants
  /\ granted' = IF ResponseOk(tokenResponse) THEN granted + 1 ELSE granted
  /\ LET cb == [callbacks[b] EXCEPT !.tokenResponse = tokenResponse]
     IN IF ResponseOk(tokenResponse)
          THEN /\ authSessions' = MapSet(authSessions, cb.pendingAuth.sessionId,
                                         NewSession(tokenResponse.json, now))
               /\ pendingAuthStates' = MapDelete(pendingAuthStates, cb.state.v)
               /\ consumed' = consumed \cup {cb.state.v}
               /\ callbacks' = [callbacks EXCEPT ![b] =
                    Respond(cb, 200, "Successfully Connected to Spotify!")]
          ELSE /\ pendingAuthStates' = MapDelete(pendingAuthStates, cb.state.v)
               /\ callbacks' = [callbacks EXCEPT ![b] =
                    Respond(cb, 500, "Authentication Error")]
               /\ UNCHANGED <<authSessions, consumed>>
  /\ UNCHANGED <<now, nextState, calls, kv, wcalls, widget, issued, sseVars>>

ExchangeResponseStoresFailure(b, tokenResponse) ==
  /\ callbacks[b].pc = "exchange"
  /\ tokenResponse \in ExchangeResponses(granted + 1)
  /\ ResponseOk(tokenResponse) => granted < MaxGrants
  /\ granted' = IF ResponseOk(tokenResponse) THEN granted + 1 ELSE granted
  /\ LET cb == [callbacks[b] EXCEPT !.tokenResponse = tokenResponse]
     IN IF ResponseOk(tokenResponse)
          THEN /\ authSessions' = MapSet(authSessions, cb.pendingAuth.sessionId,
                                         NewSession(tokenResponse.json, now))
               /\ pendingAuthStates' = MapDelete(pendingAuthStates, cb.state.v)
               /\ consumed' = consumed \cup {cb.state.v}
               /\ callbacks' = [callbacks EXCEPT ![b] =
                    Respond(cb, 200, "Successfully Connected to Spotify!")]
          ELSE /\ authSessions' = MapSet(authSessions, cb.pendingAuth.sessionId,
                                         [accessToken |-> Undefined,
                                          refreshToken |-> Undefined,
                                          expiresAt |-> now])
               /\ callbacks' = [callbacks EXCEPT ![b] =
                    Respond(cb, 500, "Authentication Error")]
               /\ UNCHANGED <<pendingAuthStates, consumed>>
  /\ UNCHANGED <<now, nextState, calls, kv, wcalls, widget, issued, sseVars>>

\* the token endpoint answers exchangeCodeForToken
ExchangeResponse(b, tokenResponse) ==
  /\ callbacks[b].pc = "exchange"
  /\ tokenResponse \in ExchangeResponses(granted + 1)
  /\ ResponseOk(tokenResponse) => granted < MaxGrants
  /\ granted' = IF ResponseOk(tokenResponse) THEN granted + 1 ELSE granted
  /\ LET cb == [callbacks[b] EXCEPT !.tokenResponse = tokenResponse]
     IN IF ResponseOk(tokenResponse)
          THEN /\ authSessions' = MapSet(authSessions, cb.pendingAuth.sessionId,
                                         NewSession(tokenResponse.json, now))
               /\ pendingAuthStates' = MapDelete(pendingAuthStates, cb.state.v)
               /\ consumed' = consumed \cup {cb.state.v}
               /\ callbacks' = [callbacks EXCEPT ![b] =
                    Respond(cb, 200, "Successfully Connected to Spotify!")]
          ELSE /\ callbacks' = [callbacks EXCEPT ![b] =
                    Respond(cb, 500, "Authentication Error")]
               /\ UNCHANGED <<authSessions, pendingAuthStates, consumed>>
  /\ UNCHANGED <<now, nextState, calls, kv, wcalls, widget, issued, sseVars>>

CallbackReturn(b) ==
  /\ callbacks[b].pc = "done"
  /\ callbacks' = [callbacks EXCEPT ![b] = IdleCallback]
  /\ UNCHANGED <<now, authSessions, pendingAuthStates, nextState, calls, kv, wcalls, granted, consumed, widget, issued, sseVars>>

(***************************************************************************)
(* The stateless RPC variant (worker.ts).  There is no authentication gate *)
(* and no callback route: handleToolCall runs at once, and the token       *)
(* record is read from and written to the SPOTIFY_TOKENS namespace.        *)
(***************************************************************************)
\* POST /mcp with method tools/call: handleToolCall up to its first await; an
\* exception is answered with status 500 and {error: message}
WorkerToolCall(c, userId, in) ==
  /\ wcalls[c].pc = "idle"
  /\ LET cr == [IdleCall EXCEPT !.sessionId = userId, !.name = in.name,
                                !.arguments = in.arguments]
     IN wcalls' = [wcalls EXCEPT ![c] = Dispatch(cr, "worker")]
  /\ UNCHANGED <<now, kv, granted, serverVars, widget, issued, sseVars>>

\* env.SPOTIFY_TOKENS.get(userId, "json") returns; getValidAccessToken goes on
WorkerKvGet(c) ==
  /\ wcalls[c].pc = "kvget"
  /\ LET cr == wcalls[c]
     IN wcalls' = [wcalls EXCEPT ![c] =
          IF ~MapHas(kv, cr.sessionId)
            THEN Finish(cr, NotAuthenticated)
            ELSE IF IsExpired(kv[cr.sessionId], now)
              THEN SendRefresh(cr, kv[cr.sessionId], cr.pendingReq)
              ELSE SendRest(cr, kv[cr.sessionId].accessToken, cr.pendingReq)]
  /\ UNCHANGED <<now, kv, granted, serverVars, widget, issued, sseVars>>

\* the token endpoint answers the refresh call; on success the put is issued
WorkerRefreshResponse(c, tokenResponse) ==
  /\ wcalls[c].pc = "refresh"
  /\ ResponseOk(tokenResponse) => granted < MaxGrants
  /\ granted' = IF ResponseOk(tokenResponse) THEN granted + 1 ELSE granted
  /\ LET cr == [wcalls[c] EXCEPT
                  !.log = Answered(@, tokenResponse.status, tokenResponse.json)]
     IN wcalls' = [wcalls EXCEPT ![c] =
          IF ~ResponseOk(tokenResponse)
            THEN OnRefreshFailure(cr, tokenResponse)
            ELSE [cr EXCEPT !.pc = "kvput",
                            !.session = RefreshedSession(cr.session, tokenResponse.json, now)]]
  /\ UNCHANGED <<now, kv, serverVars, widget, issued, sseVars>>

\* env.SPOTIFY_TOKENS.put(userId, JSON.stringify(tokenData)) returns; the
\* REST call is issued
WorkerKvPut(c) ==
  /\ wcalls[c].pc = "kvput"
  /\ LET cr == wcalls[c]
     IN /\ kv' = MapSet(kv, cr.sessionId, cr.session)
        /\ wcalls' = [wcalls EXCEPT ![c] =
             SendRest(cr, cr.session.accessToken, cr.pendingReq)]
  /\ UNCHANGED <<now, granted, serverVars, widget, issued, sseVars>>

WorkerRestResponse(c, response) ==
  /\ wcalls[c].pc = "rest"
  /\ LET cr == [wcalls[c] EXCEPT !.log = Answered(@, response.status, response.body)]
     IN wcalls' = [wcalls EXCEPT ![c] = Resume(cr, ApiOutcome(response), "worker")]
  /\ UNCHANGED <<now, kv, granted, serverVars, widget, issued, sseVars>>

WorkerReturn(c) ==
  /\ wcalls[c].pc = "done"
  /\ wcalls' = [wcalls EXCEPT ![c] = IdleCall]
  /\ UNCHANGED <<now, kv, granted, serverVars, widget, issued, sseVars>>

(***************************************************************************)
(* The search widget ui://widget/spotify-search.html.  worker.ts serves    *)
(* the static page of UI_COMPONENTS, whose script builds the sections; the *)
(* streaming server serves the build of the SpotifySearch component.  Both *)
(* read the structured result of search from the property bag.             *)
(***************************************************************************)
\* rows of the Songs section of the static page
HtmlTrackCap == 10
\* rows of the track list of the SpotifySearch component
ReactTrackCap == 20

Min(a, b) == IF a <= b THEN a ELSE b

\* Array.prototype.slice(0, end)
Slice(a, end) == SubSeq(a, 1, Min(end, Len(a)))

\* n items of a facet, by position
Items(n) == [i \in 1..n |-> i]

\* the item counts explored for the tracks and for the other facets
TrackCounts == {0, 1, 10, 11, 21}
FacetCounts == {0, 3, 21}

\* a results object: each facet absent or an array of the given length
ResultsOf(tracks, others, present) ==
  [f \in present |-> IF f = "tracks" THEN Items(tracks) ELSE Items(others[f])]

RECURSIVE TotalResults(_, _)
\* Object.values(results).reduce((sum, arr) => sum + arr.length, 0)
TotalResults(results, facets) ==
  IF facets = {} THEN 0
  ELSE LET f == CHOOSE x \in facets : TRUE
       IN Len(results[f]) + TotalResults(results, facets \ {f})

\* one section: if (results.f && results.f.length > 0) { title, rows }
Section(results, facet, title, rows) ==
  IF facet \in DOMAIN results /\ Len(results[facet]) > 0
    THEN <<[title |-> title, rows |-> rows]>>
    ELSE <<>>

\* the script of spotify-search.html: header, Songs, Artists, Albums,
\* Playlists, empty state
RenderHtml(results) ==
  LET total == TotalResults(results, DOMAIN results)
  IN [header |-> total,
      sections |->
        Section(results, "tracks", "Songs",
                IF "tracks" \in DOMAIN results
                  THEN Slice(results["tracks"], HtmlTrackCap) ELSE <<>>)
        \o Section(results, "artists", "Artists",
                   IF "artists" \in DOMAIN results THEN results["artists"] ELSE <<>>)
        \o Section(results, "albums", "Albums",
                   IF "albums" \in DOMAIN results THEN results["albums"] ELSE <<>>)
        \o Section(results, "playlists", "Playlists",
                   IF "playlists" \in DOMAIN results THEN results["playlists"] ELSE <<>>),
      empty |-> total = 0]

\* the SpotifySearch component: the track list and the empty state
RenderReact(results) ==
  LET total == TotalResults(results, DOMAIN results)
      tracks == IF "tracks" \in DOMAIN results THEN results["tracks"] ELSE <<>>
  IN [header |-> Undefined,
      sections |->
        IF Len(tracks) > 0
          THEN <<[title |-> "Songs", rows |-> Slice(tracks, ReactTrackCap)]>>
          ELSE <<>>,
      empty |-> total = 0]

BlankWidget == [pc |-> "blank", results |-> Undefined, view |-> Undefined]

\* the host loads the page and injects the structured result of a search
WidgetProps(results) ==
  /\ widget.pc = "blank"
  /\ widget' = [widget EXCEPT !.pc = "props", !.results = results]
  /\ UNCHANGED <<now, kv, wcalls, granted, serverVars, issued, sseVars>>

\* the script of the static page runs
WidgetRenderHtml ==
  /\ widget.pc = "props"
  /\ widget' = [widget EXCEPT !.pc = "html", !.view = RenderHtml(widget.results)]
  /\ UNCHANGED <<now, kv, wcalls, granted, serverVars, issued, sseVars>>

\* the SpotifySearch component renders
WidgetRenderReact ==
  /\ widget.pc = "props"
  /\ widget' = [widget EXCEPT !.pc = "react", !.view = RenderReact(widget.results)]
  /\ UNCHANGED <<now, kv, wcalls, granted, serverVars, issued, sseVars>>

\* the widget is closed
WidgetClose ==
  /\ widget.pc \in {"html", "react"}
  /\ widget' = BlankWidget
  /\ UNCHANGED <<now, kv, wcalls, granted, serverVars, issued, sseVars>>

(***************************************************************************)
(* The streaming server's transports (server.ts 745-814).                  *)
(***************************************************************************)
\* a POST request slot before the request arrives and after it is answered
IdlePost == [pc |-> "idle", sessionId |-> Undefined, response |-> Undefined, dispatched |-> {}]

\* url.searchParams.get("sessionId"): null, an empty value, the id of a
\* transport, or an id no transport ever had
PostSessionIds == {Null, Str(""), Str("zz")} \cup {Str(t) : t \in TransportIds}

\* what the request gets once it is handed to the transport: the transport's
\* own answer, or the handler's 500 when the transport throws before answering
TransportAnswers ==
  {Page(202, "written by the transport"), Page(400, "written by the transport"),
   Page(500, "Failed to process message")}

\* transport.onclose: the record leaves the registry
OnCloseKeeps(records, t) == records

OnClose(records, t) == MapDelete(records, t)

\* GET /mcp: handleSseRequest up to `await server.connect(transport)`
HandleSseRequest(t, actualSessionId) ==
  /\ transports[t] = "none"
  /\ sessionRecords' = MapSet(sessionRecords, t, [server |-> actualSessionId, transport |-> t])
  /\ transports' = [transports EXCEPT ![t] = "connecting"]
  /\ UNCHANGED <<now, kv, wcalls, granted, serverVars, widget, issued, posts>>

\* server.connect(transport) resolves: the stream is open
ConnectResolves(t) ==
  /\ transports[t] = "connecting"
  /\ transports' = [transports EXCEPT ![t] = "open"]
  /\ UNCHANGED <<now, kv, wcalls, granted, serverVars, widget, issued, posts, sessionRecords>>

\* server.connect(transport) rejects: the catch block unregisters the transport
ConnectRejects(t) ==
  /\ transports[t] = "connecting"
  /\ sessionRecords' = MapDelete(sessionRecords, t)
  /\ transports' = [transports EXCEPT ![t] = "failed"]
  /\ UNCHANGED <<now, kv, wcalls, granted, serverVars, widget, issued, posts>>

\* the stream closes: the transport calls onclose
TransportCloses(t) ==
  /\ transports[t] = "open"
  /\ sessionRecords' = OnClose(sessionRecords, t)
  /\ transports' = [transports EXCEPT ![t] = "closed"]
  /\ UNCHANGED <<now, kv, wcalls, granted, serverVars, widget, issued, posts>>

\* POST /mcp/messages: handlePostMessage
HandlePostMessage(p, sessionId) ==
  /\ posts[p].pc = "idle"
  /\ IF ~Truthy(sessionId)
       THEN posts' = [posts EXCEPT ![p] =
              [pc |-> "done", sessionId |-> sessionId,
               response |-> Page(400, "Missing sessionId query parameter"),
               dispatched |-> {}]]
       ELSE IF ~MapHas(sessionRecords, sessionId.v)
         THEN posts' = [posts EXCEPT ![p] =
                [pc |-> "done", sessionId |-> sessionId,
                 response |-> Page(404, "Unknown session"),
                 dispatched |-> {}]]
         ELSE \E answer \in TransportAnswers :
                posts' = [posts EXCEPT ![p] =
                  [pc |-> "done", sessionId |-> sessionId,
                   response |-> answer,
                   dispatched |-> {sessionRecords[sessionId.v].transport}]]
  /\ UNCHANGED <<now, kv, wcalls, granted, serverVars, widget, issued, sessionRecords, transports>>

\* the answered request is over
PostEnds(p) ==
  /\ posts[p].pc = "done"
  /\ posts' = [posts EXCEPT ![p] = IdlePost]
  /\ UNCHANGED <<now, kv, wcalls, granted, serverVars, widget, issued, sessionRecords, transports>>

(***************************************************************************)
(* The clock.                                                              *)
(***************************************************************************)
Tick ==
  /\ now < MaxTicks * TickMs
  /\ now' = now + TickMs
  /\ UNCHANGED <<authSessions, pendingAuthStates, nextState, calls, callbacks, kv, wcalls, granted, consumed, widget, issued, sseVars>>

Init ==
  /\ now = 0
  /\ authSessions = EmptyMap
  /\ pendingAuthStates = EmptyMap
  /\ nextState = 1
  /\ calls = [c \in Calls |-> IdleCall]
  /\ callbacks = [b \in Callbacks |-> IdleCallback]
  /\ kv = EmptyMap
  /\ wcalls = [c \in Calls |-> IdleCall]
  /\ granted = 0
  /\ consumed = {}
  /\ widget = BlankWidget
  /\ issued = EmptyMap
  /\ sessionRecords = EmptyMap
  /\ transports = [t \in TransportIds |-> "none"]
  /\ posts = [p \in Posts |-> IdlePost]

\* one tool call at a time, concurrent with one callback request and the clock
Next ==
  \/ \E c \in Calls, in \in CoreInputs : ToolCall(c, "s1", in)
  \/ \E c \in Calls, in \in OtherCallerInputs : ToolCall(c, "s2", in)
  \/ \E c \in Calls, tokenResponse \in RefreshResponses(granted + 1) :
       RefreshResponse(c, tokenResponse)
  \/ \E c \in Calls : \E response \in CoreRestResponses(calls[c]) : RestResponse(c, response)
  \/ \E c \in Calls : CallReturn(c)
  \/ \E b \in Callbacks, q \in CallbackQueries : CallbackStart(b, q.code, q.state, q.error)
  \/ \E b \in Callbacks, tokenResponse \in ExchangeResponses(granted + 1) :
       ExchangeResponse(b, tokenResponse)
  \/ \E b \in Callbacks : CallbackReturn(b)
  \/ Tick

Spec == Init /\ [][Next]_vars

\* every tool invocation, for one caller
ArgNext ==
  \/ \E c \in Calls, in \in ToolInputs : ToolCall(c, "s1", in)
  \/ \E c \in Calls, tokenResponse \in RefreshResponses(granted + 1) :
       RefreshResponse(c, tokenResponse)
  \/ \E c \in Calls : \E response \in RestResponses(calls[c]) : RestResponse(c, response)
  \/ \E c \in Calls : CallReturn(c)
  \/ \E b \in Callbacks, q \in CallbackQueries : CallbackStart(b, q.code, q.state, q.error)
  \/ \E b \in Callbacks, tokenResponse \in ExchangeResponses(granted + 1) :
       ExchangeResponse(b, tokenResponse)
  \/ \E b \in Callbacks : CallbackReturn(b)
  \/ Tick

ArgSpec == Init /\ [][ArgNext]_vars

\* every tool invocation of HandlerInputs, for one caller who authorizes once
HandlerNext ==
  \/ \E c \in Calls, in \in HandlerInputs : ToolCall(c, "s1", in)
  \/ \E c \in Calls, tokenResponse \in RefreshResponses(granted + 1) :
       RefreshResponse(c, tokenResponse)
  \/ \E c \in Calls : \E response \in RestResponses(calls[c]) : RestResponse(c, response)
  \/ \E c \in Calls : CallReturn(c)
  \/ \E b \in Callbacks, q \in HandlerQueries : CallbackStart(b, q.code, q.state, q.error)
  \/ \E b \in Callbacks, tokenResponse \in ExchangeResponses(granted + 1) :
       ExchangeResponse(b, tokenResponse)
  \/ \E b \in Callbacks : CallbackReturn(b)
  \/ Tick

HandlerSpec == Init /\ [][HandlerNext]_vars

\* the tool invocation of two requests served at the same time
RaceInputs ==
  {Tool("add_to_library", [NoArguments EXCEPT !.itemType = Str("track"), !.itemId = Str("X")])}

RaceInit ==
  /\ now = 0
  /\ authSessions = EmptyMap
  /\ pendingAuthStates = EmptyMap
  /\ nextState = 1
  /\ calls = [c \in RaceCalls |-> IdleCall]
  /\ callbacks = [b \in Callbacks |-> IdleCallback]
  /\ kv = EmptyMap
  /\ wcalls = [c \in Calls |-> IdleCall]
  /\ granted = 0
  /\ consumed = {}
  /\ widget = BlankWidget
  /\ issued = EmptyMap
  /\ sessionRecords = EmptyMap
  /\ transports = [t \in TransportIds |-> "none"]
  /\ posts = [p \in Posts |-> IdlePost]

\* two tool calls of one caller at a time: the handler of the second starts
\* while the first awaits an outbound call
RaceNext ==
  \/ \E c \in RaceCalls, in \in RaceInputs : ToolCall(c, "s1", in)
  \/ \E c \in RaceCalls, tokenResponse \in RefreshResponses(granted + 1) :
       RefreshResponse(c, tokenResponse)
  \/ \E c \in RaceCalls : \E response \in CoreRestResponses(calls[c]) : RestResponse(c, response)
  \/ \E c \in RaceCalls : CallReturn(c)
  \/ \E b \in Callbacks, q \in HandlerQueries : CallbackStart(b, q.code, q.state, q.error)
  \/ \E b \in Callbacks, tokenResponse \in ExchangeResponses(granted + 1) :
       ExchangeResponse(b, tokenResponse)
  \/ \E b \in Callbacks : CallbackReturn(b)
  \/ Tick

RaceSpec == RaceInit /\ [][RaceNext]_vars

\* RaceSpec with every outbound HTTP call answered in the end: the fetch of a
\* request that awaits an answer is not left pending for ever
OutboundCallsReturn ==
  /\ \A c \in RaceCalls :
       /\ WF_vars(\E tokenResponse \in RefreshResponses(granted + 1) :
                    RefreshResponse(c, tokenResponse))
       /\ WF_vars(\E response \in CoreRestResponses(calls[c]) : RestResponse(c, response))
  /\ \A b \in Callbacks :
       WF_vars(\E tokenResponse \in ExchangeResponses(granted + 1) :
                 ExchangeResponse(b, tokenResponse))

LiveSpec == RaceInit /\ [][RaceNext]_vars /\ OutboundCallsReturn

CallbackRaceInit ==
  /\ now = 0
  /\ authSessions = EmptyMap
  /\ pendingAuthStates = EmptyMap
  /\ nextState = 1
  /\ calls = [c \in Calls |-> IdleCall]
  /\ callbacks = [b \in RaceCallbacks |-> IdleCallback]
  /\ kv = EmptyMap
  /\ wcalls = [c \in Calls |-> IdleCall]
  /\ granted = 0
  /\ consumed = {}
  /\ widget = BlankWidget
  /\ issued = EmptyMap
  /\ sessionRecords = EmptyMap
  /\ transports = [t \in TransportIds |-> "none"]
  /\ posts = [p \in Posts |-> IdlePost]

\* two callback requests at a time, carrying the state of the first prompt:
\* the second arrives while the first awaits the code exchange
CallbackRaceNext ==
  \/ \E c \in Calls, in \in RaceInputs : ToolCall(c, "s1", in)
  \/ \E c \in Calls, tokenResponse \in RefreshResponses(granted + 1) :
       RefreshResponse(c, tokenResponse)
  \/ \E c \in Calls : \E response \in CoreRestResponses(calls[c]) : RestResponse(c, response)
  \/ \E c \in Calls : CallReturn(c)
  \/ \E b \in RaceCallbacks, q \in HandlerQueries :
       CallbackStart(b, q.code, q.state, q.error)
  \/ \E b \in RaceCallbacks, tokenResponse \in ExchangeResponses(granted + 1) :
       ExchangeResponse(b, tokenResponse)
  \/ \E b \in RaceCallbacks : CallbackReturn(b)
  \/ Tick

CallbackRaceSpec == CallbackRaceInit /\ [][CallbackRaceNext]_vars

\* the widget alone: every results object of the explored counts, rendered by
\* the static page or by the component
RenderNext ==
  \/ \E tracks \in TrackCounts, others \in [{"artists", "albums", "playlists"} -> FacetCounts],
        present \in SUBSET {"tracks", "artists", "albums", "playlists"} :
       WidgetProps(ResultsOf(tracks, others, present))
  \/ WidgetRenderHtml
  \/ WidgetRenderReact
  \/ WidgetClose

RenderSpec == Init /\ [][RenderNext]_vars

SseNext ==
  \/ \E t \in TransportIds, actualSessionId \in SessionIds : HandleSseRequest(t, actualSessionId)
  \/ \E t \in TransportIds : ConnectResolves(t)
  \/ \E t \in TransportIds : ConnectRejects(t)
  \/ \E t \in TransportIds : TransportCloses(t)
  \/ \E p \in Posts, sessionId \in PostSessionIds : HandlePostMessage(p, sessionId)
  \/ \E p \in Posts : PostEnds(p)

SseSpec == Init /\ [][SseNext]_vars

\* The namespace is filled outside the worker: it starts empty or with the
\* token record of a user who has authorized.
KvContents ==
  {EmptyMap,
   [u \in {"s1"} |-> [accessToken |-> AccessToken(0), refreshToken |-> RefreshToken(0),
                      expiresAt |-> TickMs]]}

WorkerInit ==
  /\ now = 0
  /\ authSessions = EmptyMap
  /\ pendingAuthStates = EmptyMap
  /\ nextState = 1
  /\ calls = [c \in Calls |-> IdleCall]
  /\ callbacks = [b \in Callbacks |-> IdleCallback]
  /\ kv \in KvContents
  /\ wcalls = [c \in Calls |-> IdleCall]
  /\ granted = 0
  /\ consumed = {}
  /\ widget = BlankWidget
  /\ issued = EmptyMap
  /\ sessionRecords = EmptyMap
  /\ transports = [t \in TransportIds |-> "none"]
  /\ posts = [p \in Posts |-> IdlePost]

WorkerNext ==
  \/ \E c \in Calls, userId \in SessionIds, in \in HandlerInputs : WorkerToolCall(c, userId, in)
  \/ \E c \in Calls : WorkerKvGet(c)
  \/ \E c \in Calls, tokenResponse \in RefreshResponses(granted + 1) :
       WorkerRefreshResponse(c, tokenResponse)
  \/ \E c \in Calls : WorkerKvPut(c)
  \/ \E c \in Calls : \E response \in RestResponses(wcalls[c]) : WorkerRestResponse(c, response)
  \/ \E c \in Calls : WorkerReturn(c)
  \/ Tick

WorkerSpec == WorkerInit /\ [][WorkerNext]_vars

(***************************************************************************)
(* Properties.                                                             *)
(***************************************************************************)
\* the number of token-refresh calls in a log of outbound calls
RefreshCount(log) == Cardinality({i \in 1..Len(log) : log[i].kind = "refresh"})

LastOf(log) == log[Len(log)]

\* this step begins an invocation of getValidAccessToken for the tool call c:
\* the handler calls spotifyApiRequest, which adds one outbound call
StartsTokenLookup(c) ==
  /\ calls[c].pc \in {"idle", "rest"}
  /\ calls'[c].pc \in {"refresh", "rest"}
  /\ Len(calls'[c].log) = Len(calls[c].log) + 1

\* C1: an invocation of getValidAccessToken made while now < the stored
\* expiry returns the stored access token unchanged (it is the bearer of the
\* REST call) and calls the token endpoint not at all, leaving the store as it
\* is; made while now >= the stored expiry it issues exactly one refresh call
\* (with the stored refresh token), and no second one before it ends.
C1_TokenLookup ==
  [][\A c \in Calls :
       /\ StartsTokenLookup(c) =>
            LET stored == authSessions[calls'[c].sessionId]
                last == LastOf(calls'[c].log)
            IN IF now < stored.expiresAt
                 THEN /\ last.kind = "rest"
                      /\ last.bearer = stored.accessToken
                      /\ RefreshCount(calls'[c].log) = RefreshCount(calls[c].log)
                      /\ authSessions' = authSessions
                 ELSE /\ last.kind = "refresh"
                      /\ last.body.refresh_token = stored.refreshToken
                      /\ RefreshCount(calls'[c].log) = RefreshCount(calls[c].log) + 1
       /\ (calls[c].pc = "refresh" /\ calls'[c] # calls[c]) =>
            /\ calls'[c].pc \in {"rest", "done"}
            /\ RefreshCount(calls'[c].log) = RefreshCount(calls[c].log)
    ]_vars

\* one fetch_tracks call in which the first lookup returned the stored token
\* and the second, made after the expiry, is waiting for its refresh call
C1_Witness ==
  \E c \in Calls :
    /\ calls[c].pc = "refresh"
    /\ Len(calls[c].log) = 2
    /\ calls[c].log[1].kind = "rest"
    /\ now >= authSessions[calls[c].sessionId].expiresAt

\* this step issues a bearer-authenticated REST call of the tool call c
IssuesRest(c) ==
  /\ calls'[c].pc = "rest"
  /\ Len(calls'[c].log) = Len(calls[c].log) + 1

\* C2 as stated: every REST call carries the stored access token, and the
\* stored expiry is strictly later than the time the call is issued.
C2_AsStated ==
  [][\A c \in Calls :
       IssuesRest(c) =>
         LET stored == authSessions'[calls'[c].sessionId]
         IN /\ LastOf(calls'[c].log).bearer = stored.accessToken
            /\ stored.expiresAt > now'
    ]_vars

\* C2: every REST call carries the access token stored for the session when
\* the call is issued; a token whose expiry has been reached is never sent
\* without a refresh; the stored expiry is strictly later than the time of
\* issue unless the token comes from a refresh, made for this very call, that
\* returned expires_in <= 0: then the stored expiry is now + expires_in*1000
\* and the token is sent all the same.
C2_FreshOrJustRefreshed ==
  [][\A c \in Calls :
       IssuesRest(c) =>
         LET stored == authSessions'[calls'[c].sessionId]
             log == calls'[c].log
         IN /\ LastOf(log).bearer = stored.accessToken
            /\ IF calls[c].pc = "refresh"
                 THEN LET tokenData == log[Len(log) - 1].json
                      IN /\ stored.accessToken = tokenData.access_token
                         /\ stored.expiresAt = now' + tokenData.expires_in * 1000
                         /\ (stored.expiresAt > now') = (tokenData.expires_in > 0)
                 ELSE stored.expiresAt > now'
    ]_vars

\* a REST call in flight with the token of a refresh that returned a
\* positive expires_in
C2_Witness ==
  \E c \in Calls :
    /\ calls[c].pc = "rest"
    /\ Len(calls[c].log) >= 2
    /\ calls[c].log[Len(calls[c].log) - 1].kind = "refresh"
    /\ calls[c].log[Len(calls[c].log) - 1].json.expires_in > 0
    /\ authSessions[calls[c].sessionId].expiresAt > now

\* this step takes the tool call c from its arrival to its first await or end
CallArrives(c) == calls[c].pc = "idle" /\ calls'[c].pc # "idle"

\* C3: a tool call (any tool, any arguments) that arrives while authSessions
\* holds no entry for the caller executes no handler and issues no upstream
\* call: it ends at once, adds exactly one entry to pendingAuthStates, under
\* a state that was not stored, mapping to the caller's session id and the
\* current time, leaves the other entries and authSessions alone, and returns
\* the message whose URL carries that state.
C3_GateWithoutSession ==
  [][\A c \in Calls :
       (CallArrives(c) /\ calls'[c].sessionId \notin DOMAIN authSessions) =>
         /\ calls'[c].pc = "done"
         /\ calls'[c].log = <<>>
         /\ authSessions' = authSessions
         /\ \E state \in (DOMAIN pendingAuthStates') \ (DOMAIN pendingAuthStates) :
              /\ DOMAIN pendingAuthStates' = (DOMAIN pendingAuthStates) \cup {state}
              /\ \A k \in DOMAIN pendingAuthStates :
                   pendingAuthStates'[k] = pendingAuthStates[k]
              /\ pendingAuthStates'[state] =
                   [sessionId |-> calls'[c].sessionId, createdAt |-> now]
              /\ calls'[c].result.kind = "content"
              /\ calls'[c].result.text[1] =
                   "Please authenticate with Spotify to use this feature. Visit: "
              /\ calls'[c].result.text[2].state = state
    ]_vars

\* a call of a tool the server does not know, answered with the prompt
C3_Witness ==
  \E c \in Calls :
    /\ calls[c].pc = "done"
    /\ calls[c].name = "play"
    /\ calls[c].result.kind = "content"
    /\ calls[c].result.text[1] =
         "Please authenticate with Spotify to use this feature. Visit: "
    /\ calls[c].result.text[2].state \in DOMAIN pendingAuthStates

\* this step takes the callback request b from its arrival to its first await
\* or end
CallbackArrives(b) == callbacks[b].pc = "idle" /\ callbacks'[b].pc # "idle"

\* a query parameter that is absent or empty
Missing(x) == x.t = "null" \/ (x.t = "string" /\ x.v = "")

\* C4: a callback whose code or state is missing, or whose state is not in
\* pendingAuthStates when it arrives (never issued, consumed or swept), is
\* answered 400 at once: no token exchange is issued and authSessions is
\* unchanged.
C4_RejectedCallback ==
  [][\A b \in Callbacks :
       (/\ CallbackArrives(b)
        /\ \/ Missing(callbacks'[b].code)
           \/ Missing(callbacks'[b].state)
           \/ callbacks'[b].state.v \notin DOMAIN pendingAuthStates) =>
         /\ callbacks'[b].pc = "done"
         /\ callbacks'[b].response.status = 400
         /\ callbacks'[b].exchanges = 0
         /\ granted' = granted
         /\ authSessions' = authSessions
    ]_vars

\* a callback rejected for a state that was issued and is no longer stored
C4_Witness ==
  \E b \in Callbacks :
    /\ callbacks[b].pc = "done"
    /\ callbacks[b].response = Page(400, "Invalid or expired state parameter")
    /\ callbacks[b].state = Str("1")
    /\ nextState > 1
    /\ "1" \notin DOMAIN pendingAuthStates

\* the entries of pendingAuthStates older than ten minutes at time t
Older(pending, t) == {k \in DOMAIN pending : t - pending[k].createdAt > 10 * 60 * 1000}

\* C5 as stated: when a callback invocation completes, accepted or rejected,
\* no entry of pendingAuthStates is older than ten minutes.
C5_AsStated ==
  [][\A b \in Callbacks :
       (callbacks[b].pc # "done" /\ callbacks'[b].pc = "done") =>
         Older(pendingAuthStates', now') = {}
    ]_vars

\* C5: a callback that carries no error, a code and a state found in
\* pendingAuthStates removes, at the moment it has looked its state up, every
\* entry older than ten minutes (now - createdAt > 600000), its own included,
\* and keeps the others as they are; a callback rejected for an error, a
\* missing parameter or an unknown state leaves pendingAuthStates unchanged.
C5_SweepOnAcceptedLookup ==
  [][\A b \in Callbacks :
       /\ (CallbackArrives(b) /\ callbacks'[b].pc = "exchange") =>
            /\ Older(pendingAuthStates', now) = {}
            /\ DOMAIN pendingAuthStates' =
                 (DOMAIN pendingAuthStates) \ Older(pendingAuthStates, now)
            /\ \A k \in DOMAIN pendingAuthStates' :
                 pendingAuthStates'[k] = pendingAuthStates[k]
       /\ (CallbackArrives(b) /\ callbacks'[b].pc = "done") =>
            pendingAuthStates' = pendingAuthStates
    ]_vars

\* a callback waiting for its code exchange whose own entry, older than ten
\* minutes, has been swept
C5_Witness ==
  \E b \in Callbacks :
    /\ callbacks[b].pc = "exchange"
    /\ callbacks[b].state.v \notin DOMAIN pendingAuthStates
    /\ now - callbacks[b].pendingAuth.createdAt > 10 * 60 * 1000

\* C6: when the code exchange of a callback succeeds, authSessions holds,
\* under the session id read from the pending entry, the access and refresh
\* tokens of the answer with expiry now + expires_in*1000; the entry of the
\* presented state is gone from pendingAuthStates; the success page is
\* returned.
C6_SuccessfulCallback ==
  [][\A b \in Callbacks :
       (/\ callbacks[b].pc = "exchange"
        /\ callbacks'[b].pc = "done"
        /\ callbacks'[b].tokenResponse.status = 200) =>
         LET tokenData == callbacks'[b].tokenResponse.json
             sessionId == callbacks[b].pendingAuth.sessionId
         IN /\ sessionId \in DOMAIN authSessions'
            /\ authSessions'[sessionId] =
                 [accessToken |-> tokenData.access_token,
                  refreshToken |-> tokenData.refresh_token,
                  expiresAt |-> now + tokenData.expires_in * 1000]
            /\ callbacks[b].state.v \notin DOMAIN pendingAuthStates'
            /\ callbacks'[b].response = Page(200, "Successfully Connected to Spotify!")
    ]_vars

\* a finished callback that stored a session expiring in ten minutes
C6_Witness ==
  \E b \in Callbacks :
    /\ callbacks[b].pc = "done"
    /\ callbacks[b].response.status = 200
    /\ callbacks[b].tokenResponse.json.expires_in = 600
    /\ callbacks[b].pendingAuth.sessionId \in DOMAIN authSessions
    /\ authSessions[callbacks[b].pendingAuth.sessionId].expiresAt = now + TenMinutes
    /\ callbacks[b].state.v \notin DOMAIN pendingAuthStates

\* the query of the tool call is a string whose lower-cased form contains
\* "audiobook"
AsksForAudiobooks(cr) ==
  /\ cr.name = "search"
  /\ cr.arguments.query.t = "string"
  /\ Includes(ToLowerCase(cr.arguments.query.v), Audiobook)

\* C7 as stated: a search whose lower-cased query contains "audiobook" issues
\* no upstream call and, whatever its other arguments, ends with the fixed
\* refusal text.
C7_AsStated ==
  \A c \in Calls :
    AsksForAudiobooks(calls[c]) =>
      /\ calls[c].log = <<>>
      /\ calls[c].pc = "done" =>
           (calls[c].result.kind = "content" /\ calls[c].result.text = AudiobookRefusal)

\* C7: a search whose lower-cased query contains "audiobook" ends at once
\* with no upstream call; it returns the fixed refusal text when the caller
\* has a session and the arguments pass the schema, whatever the valid types,
\* limit and market; without a session it returns the authorization prompt,
\* and with arguments the schema rejects it fails with the validation error.
C7_AudiobookRefusal ==
  [][\A c \in Calls :
       (CallArrives(c) /\ AsksForAudiobooks(calls'[c])) =>
         /\ calls'[c].pc = "done"
         /\ calls'[c].log = <<>>
         /\ granted' = granted
         /\ IF calls'[c].sessionId \notin DOMAIN authSessions
              THEN /\ calls'[c].result.kind = "content"
                   /\ calls'[c].result.text # AudiobookRefusal
              ELSE IF ~SearchParser(calls'[c].arguments)
                THEN calls'[c].result = ZodError
                ELSE /\ calls'[c].result.kind = "content"
                     /\ calls'[c].result.text = AudiobookRefusal
    ]_vars

\* the refusal returned for the query "AudioBook" with types, limit and market
C7_Witness ==
  \E c \in Calls :
    /\ calls[c].pc = "done"
    /\ calls[c].arguments.query = Str(AudioBookCaps)
    /\ calls[c].arguments.limit = Num(50)
    /\ calls[c].result.kind = "content"
    /\ calls[c].result.text = AudiobookRefusal

\* C8 as stated: in the streaming server and in the worker alike, no tool call
\* ends with the not-authenticated error.
C8_AsStated ==
  \A c \in Calls :
    \A cr \in {calls[c], wcalls[c]} :
      (cr.pc = "done" /\ cr.result.kind = "error") => cr.result.error # "NotAuthenticated"

\* an outbound call that was answered with a status outside 200..299
Failed(entry) == entry.status # 0 /\ ~(entry.status >= 200 /\ entry.status <= 299)

\* C9: within a tool call a failed outbound call is the last one: the call is
\* over, its result is the error of that failure, and no outbound call, a
\* retry included, follows it.
C9_NoRetry ==
  \A c \in Calls :
    \A i \in 1..Len(calls[c].log) :
      Failed(calls[c].log[i]) =>
        /\ i = Len(calls[c].log)
        /\ calls[c].pc = "done"
        /\ calls[c].result.kind = "error"
        /\ calls[c].result.error =
             (IF calls[c].log[i].kind = "refresh" THEN "TokenRefreshFailed" ELSE "UpstreamError")

\* a tool call that ended on a 401 of the REST call it made with a token it
\* had just refreshed
C9_Witness ==
  \E c \in Calls :
    /\ calls[c].pc = "done"
    /\ Len(calls[c].log) = 2
    /\ calls[c].log[1].kind = "refresh"
    /\ calls[c].log[1].status = 200
    /\ calls[c].log[2].kind = "rest"
    /\ calls[c].log[2].status = 401
    /\ calls[c].result.error = "UpstreamError"

\* C10 as stated: a successful refresh stores the returned access token and
\* the expiry now + expires_in*1000 for its session, and changes nothing else:
\* the stored refresh token of the session and every other session are as
\* before.
C10_AsStated ==
  [][\A c \in Calls :
       (calls[c].pc = "refresh" /\ calls'[c].pc = "rest") =>
         LET sessionId == calls[c].sessionId
             tokenData == calls'[c].log[Len(calls'[c].log) - 1].json
         IN /\ DOMAIN authSessions' = DOMAIN authSessions
            /\ authSessions'[sessionId].accessToken = tokenData.access_token
            /\ authSessions'[sessionId].expiresAt = now + tokenData.expires_in * 1000
            /\ authSessions'[sessionId].refreshToken = authSessions[sessionId].refreshToken
            /\ \A other \in (DOMAIN authSessions) \ {sessionId} :
                 authSessions'[other] = authSessions[other]
    ]_vars

IsRest(entry) == entry.kind = "rest"

\* the bearer-authenticated REST calls of a tool call, in the order issued
RestCalls(log) == SelectSeq(log, IsRest)

\* a fetch_tracks call that has returned its result (the authorization prompt
\* has no structured content)
FetchTracksReturned(cr) ==
  /\ cr.pc = "done"
  /\ cr.name = "fetch_tracks"
  /\ cr.result.kind = "content"
  /\ "tracks" \in DOMAIN cr.result.structured

\* C11: whenever fetch_tracks returns, for the page of n items its first call
\* received and the answer of its saved-status call, the result holds exactly
\* n tracks, the i-th being the i-th item of the page, and the i-th is_saved
\* is the i-th element of the saved-status answer (undefined where the answer
\* has no i-th element).
C11_FetchTracksProjection ==
  \A c \in Calls :
    FetchTracksReturned(calls[c]) =>
      LET page == RestCalls(calls[c].log)[1].json.v
          saved == RestCalls(calls[c].log)[2].json
          tracks == calls[c].result.structured.tracks
      IN /\ Len(tracks) = Len(page.items)
         /\ \A i \in 1..Len(tracks) :
              /\ tracks[i].id = page.items[i]
              /\ tracks[i].is_saved =
                   (IF saved.t = "json" /\ i <= Len(saved.v)
                      THEN [t |-> "boolean", v |-> saved.v[i]]
                      ELSE Undefined)

\* a page of two tracks returned with the flags TRUE, FALSE in page order
C11_Witness ==
  \E c \in Calls :
    /\ FetchTracksReturned(calls[c])
    /\ Len(calls[c].result.structured.tracks) = 2
    /\ RestCalls(calls[c].log)[2].json.v = <<TRUE, FALSE>>
    /\ calls[c].result.structured.tracks[1].is_saved.v = TRUE
    /\ calls[c].result.structured.tracks[2].is_saved.v = FALSE

\* a library call for one of the five item types that have an endpoint
LibraryCall(cr) ==
  /\ cr.name \in {"add_to_library", "remove_from_library"}
  /\ cr.arguments.itemType.t = "string"
  /\ cr.arguments.itemType.v \in {"track", "album", "artist", "show", "episode"}
  /\ cr.arguments.itemId.t = "string"

\* the tool call ended at the authentication gate
Prompted(cr) ==
  /\ cr.pc = "done"
  /\ cr.log = <<>>
  /\ cr.result.kind = "content"
  /\ cr.result.text[1] = "Please authenticate with Spotify to use this feature. Visit: "

\* the tool call ended on the failure of its first token refresh
RefreshFailedFirst(cr) ==
  /\ cr.pc = "done"
  /\ Len(cr.log) = 1
  /\ cr.log[1].kind = "refresh"
  /\ Failed(cr.log[1])

\* C12: for itemType track, album, artist, show or episode and itemId X, every
\* REST call of add_to_library is a PUT and every one of remove_from_library a
\* DELETE, to /me/tracks, /me/albums, /me/following?type=artist, /me/shows or
\* /me/episodes according to the type alone, with body ids = [X]; a call of an
\* authenticated caller issues exactly one of them (none only when the token
\* refresh that had to precede it failed).
C12_LibraryCall ==
  \A c \in Calls :
    LibraryCall(calls[c]) =>
      LET type == calls[c].arguments.itemType.v
          rest == RestCalls(calls[c].log)
      IN /\ Len(rest) <= 1
         /\ \A i \in 1..Len(rest) :
              /\ rest[i].method =
                   (IF calls[c].name = "add_to_library" THEN "PUT" ELSE "DELETE")
              /\ rest[i].endpoint =
                   (CASE type = "track" -> <<"/me/tracks">>
                      [] type = "album" -> <<"/me/albums">>
                      [] type = "artist" -> <<"/me/following?type=artist">>
                      [] type = "show" -> <<"/me/shows">>
                      [] type = "episode" -> <<"/me/episodes">>)
              /\ rest[i].body = [ids |-> <<calls[c].arguments.itemId.v>>]
         /\ calls[c].pc = "rest" => Len(rest) = 1
         /\ (calls[c].pc = "done" /\ ~Prompted(calls[c]) /\ ~RefreshFailedFirst(calls[c])) =>
              Len(rest) = 1

\* an artist unfollowed with one DELETE to the follow endpoint
C12_Witness ==
  \E c \in Calls :
    /\ calls[c].pc = "done"
    /\ calls[c].name = "remove_from_library"
    /\ calls[c].arguments.itemType = Str("artist")
    /\ Len(RestCalls(calls[c].log)) = 1
    /\ RestCalls(calls[c].log)[1].method = "DELETE"
    /\ RestCalls(calls[c].log)[1].endpoint = <<"/me/following?type=artist">>
    /\ RestCalls(calls[c].log)[1].body = [ids |-> <<"X">>]
    /\ calls[c].result.kind = "content"

ItemTypes == {"track", "album", "artist", "playlist", "show", "episode"}

Absent(x) == x.t = "undefined"

\* the arguments break the schema of the tool: a required field is missing or
\* of the wrong type, a value is outside the enumeration, or limit is above
\* the maximum
BreaksSchema(cr) ==
  LET a == cr.arguments
  IN \/ /\ cr.name \in {"add_to_library", "remove_from_library"}
        /\ \/ a.itemType.t # "string"
           \/ a.itemType.v \notin ItemTypes
           \/ a.itemId.t # "string"
     \/ /\ cr.name = "fetch_tracks"
        /\ \/ a.playlistId.t # "string"
           \/ ~Absent(a.offset) /\ a.offset.t # "number"
           \/ ~Absent(a.limit) /\ (a.limit.t # "number" \/ a.limit.v > 100)
     \/ /\ cr.name = "search"
        /\ \/ a.query.t # "string"
           \/ ~Absent(a.types) /\ (a.types.t # "array"
                                   \/ \E i \in 1..Len(a.types.v) : a.types.v[i] \notin ItemTypes)
           \/ ~Absent(a.limit) /\ (a.limit.t # "number" \/ a.limit.v > 50)
           \/ ~Absent(a.market) /\ a.market.t # "string"

\* C13 as stated: a tool call whose arguments break the schema ends with the
\* validation error and issues no outbound call.
C13_AsStated ==
  \A c \in Calls :
    BreaksSchema(calls[c]) =>
      /\ calls[c].log = <<>>
      /\ calls[c].pc = "done" =>
           (calls[c].result.kind = "error" /\ calls[c].result.error = "ZodError")

\* C13: a tool call whose arguments break the schema issues no outbound call
\* and ends at once: with the validation error when the caller has a session,
\* with the authorization prompt (the arguments are not looked at) when the
\* caller has none.
C13_InvalidArguments ==
  [][\A c \in Calls :
       (CallArrives(c) /\ BreaksSchema(calls'[c])) =>
         /\ calls'[c].pc = "done"
         /\ calls'[c].log = <<>>
         /\ granted' = granted
         /\ IF calls'[c].sessionId \in DOMAIN authSessions
              THEN /\ calls'[c].result.kind = "error"
                   /\ calls'[c].result.error = "ZodError"
                   /\ pendingAuthStates' = pendingAuthStates
              ELSE Prompted(calls'[c])
    ]_vars

\* an item type outside the enumeration, refused for a caller with a session
C13_Witness ==
  \E c \in Calls :
    /\ calls[c].pc = "done"
    /\ calls[c].arguments.itemType = Str("podcast")
    /\ calls[c].sessionId \in DOMAIN authSessions
    /\ calls[c].result.kind = "error"
    /\ calls[c].result.error = "ZodError"

\* the outcome of spotifyApiRequest as the tool call shows it: a thrown error
\* ends the call with that error, a returned value lets the handler go on
\* (the handlers themselves throw nothing but TypeError)
ApiThrew(cr) ==
  cr.pc = "done" /\ cr.result.kind = "error" /\ cr.result.error # "TypeError"

\* C14 as stated: a REST call answered outside 200..299 makes spotifyApiRequest
\* fail with an error carrying the status and the body; answered 204 it
\* returns null; answered with any other 2xx status it returns the parsed
\* JSON body (seen in fetch_tracks, which keeps the returned page).
C14_AsStated ==
  \A c \in Calls :
    LET cr == calls[c]
        rest == RestCalls(cr.log)
    IN /\ \A i \in 1..Len(rest) :
            /\ Failed(rest[i]) =>
                 /\ i = Len(rest)
                 /\ cr.pc = "done"
                 /\ cr.result = Thrown("UpstreamError",
                      <<"Spotify API error: ", rest[i].status, " ", rest[i].json.v>>)
       /\ (/\ cr.log # <<>>
           /\ LastOf(cr.log).kind = "rest"
           /\ LastOf(cr.log).status >= 200
           /\ LastOf(cr.log).status <= 299) =>
            ~ApiThrew(cr)
       /\ (cr.name = "fetch_tracks" /\ Len(rest) = 2) =>
            /\ rest[1].status # 204
            /\ cr.pc # "done" => cr.data = rest[1].json
       /\ (cr.pc = "done" /\ cr.name = "fetch_tracks" /\ Len(rest) = 1 /\ rest[1].status = 204) =>
            cr.result = TypeErrorThrown

\* a search whose query does not ask for audiobooks
PlainSearch(cr) ==
  /\ cr.name = "search"
  /\ cr.arguments.query.t = "string"
  /\ ~Includes(ToLowerCase(cr.arguments.query.v), Audiobook)

\* the type, limit and market parameters of a search request
TypeParam(entry) == entry.endpoint[4]
LimitParam(entry) == entry.endpoint[6]
MarketParam(entry) == entry.endpoint[8]

\* types and market as a search request must carry them
DefaultsApplied(cr, entry) ==
  /\ entry.method = "GET"
  /\ TypeParam(entry) =
       (IF Absent(cr.arguments.types)
          THEN <<"track", ",", "album", ",", "artist", ",", "playlist">>
          ELSE Join(cr.arguments.types.v, ","))
  /\ MarketParam(entry) =
       (IF Absent(cr.arguments.market) THEN "US" ELSE cr.arguments.market.v)

\* C15 as stated: the request of a non-audiobook search carries the default
\* types, market and limit 20 where they are omitted, and a limit above 50 is
\* sent as 50: a call with such a limit does reach upstream.
C15_AsStated ==
  \A c \in Calls :
    PlainSearch(calls[c]) =>
      LET limit == calls[c].arguments.limit
          rest == RestCalls(calls[c].log)
      IN /\ \A i \in 1..Len(rest) :
              /\ DefaultsApplied(calls[c], rest[i])
              /\ LimitParam(rest[i]) =
                   (IF Absent(limit) THEN 20 ELSE IF limit.v > 50 THEN 50 ELSE limit.v)
         /\ (/\ ~Absent(limit)
             /\ limit.v > 50
             /\ calls[c].pc = "done"
             /\ ~Prompted(calls[c])
             /\ ~RefreshFailedFirst(calls[c])) => Len(rest) = 1

\* C15: the request of a non-audiobook search carries types track, album,
\* artist, playlist when types is omitted, market "US" when market is omitted
\* and limit 20 when limit is omitted, and never a limit above 50: a call with
\* a limit above 50 is refused by the schema and sends no request at all.
C15_SearchDefaults ==
  \A c \in Calls :
    PlainSearch(calls[c]) =>
      LET limit == calls[c].arguments.limit
          rest == RestCalls(calls[c].log)
      IN /\ \A i \in 1..Len(rest) :
              /\ DefaultsApplied(calls[c], rest[i])
              /\ LimitParam(rest[i]) = (IF Absent(limit) \/ limit.v = 0 THEN 20 ELSE limit.v)
              /\ LimitParam(rest[i]) <= 50
         /\ (~Absent(limit) /\ limit.v > 50) =>
              /\ calls[c].log = <<>>
              /\ calls[c].pc = "done" =>
                   \/ Prompted(calls[c])
                   \/ calls[c].result.kind = "error" /\ calls[c].result.error = "ZodError"

\* a search with nothing but the query, sent with all three defaults
C15_Witness ==
  \E c \in Calls :
    /\ PlainSearch(calls[c])
    /\ Absent(calls[c].arguments.types)
    /\ Absent(calls[c].arguments.limit)
    /\ Absent(calls[c].arguments.market)
    /\ Len(RestCalls(calls[c].log)) = 1
    /\ LimitParam(RestCalls(calls[c].log)[1]) = 20
    /\ MarketParam(RestCalls(calls[c].log)[1]) = "US"

\* the callback request b carries the state s
CarriesState(cb, s) == cb.state.t = "string" /\ cb.state.v = s

\* the page of a callback rejected for a state that is not stored
InvalidState == Page(400, "Invalid or expired state parameter")

\* C16: a state is used once.  A state whose callback has stored a Session is
\* no longer in pendingAuthStates and never returns to it; a callback that
\* arrives later with that state is answered 400 at once, with "Invalid or
\* expired state parameter" whenever it carries a code and no error, and it
\* issues no token exchange and writes no Session.
C16_OneTimeState ==
  [][/\ consumed' \cap DOMAIN pendingAuthStates' = {}
     /\ \A b \in Callbacks : \A s \in consumed :
          (CallbackArrives(b) /\ CarriesState(callbacks'[b], s)) =>
            /\ callbacks'[b].pc = "done"
            /\ callbacks'[b].response.status = 400
            /\ (~Missing(callbacks'[b].code) /\ ~Truthy(callbacks'[b].error)) =>
                 callbacks'[b].response = InvalidState
            /\ callbacks'[b].exchanges = 0
            /\ granted' = granted
            /\ authSessions' = authSessions
    ]_vars

\* a callback with a code and a consumed state has been rejected, the Session
\* stored by the first callback being in place
C16_Witness ==
  \E b \in Callbacks :
    /\ callbacks[b].pc = "done"
    /\ callbacks[b].state.t = "string"
    /\ callbacks[b].state.v \in consumed
    /\ ~Missing(callbacks[b].code)
    /\ callbacks[b].response = InvalidState
    /\ callbacks[b].exchanges = 0
    /\ authSessions # EmptyMap

\* this step delivers a successful answer to the refresh call of the tool call c
RefreshSucceeds(c) == calls[c].pc = "refresh" /\ calls'[c].pc = "rest"

\* the token data that answered the refresh call logged at position i
Refreshed(cr, i) ==
  /\ i \in 1..Len(cr.log)
  /\ cr.log[i].kind = "refresh"
  /\ cr.log[i].status = 200

\* C17: refreshes of one session are not serialized.  A tool call that reads
\* an expired Session issues its refresh call whether or not another tool call
\* has a refresh in flight for the same Session, and every refresh that
\* succeeds stores its own access token and its own expiry (now + expires_in
\* * 1000), so the store holds those of the refresh that completed last; the
\* Session stays in the store.
C17_LastWriterWins ==
  [][\A c \in RaceCalls :
       /\ (/\ StartsTokenLookup(c)
           /\ IsExpired(authSessions[calls'[c].sessionId], now)) =>
             /\ calls'[c].pc = "refresh"
             /\ authSessions' = authSessions
       /\ RefreshSucceeds(c) =>
            LET id == calls[c].sessionId
                tokenData == calls'[c].log[Len(calls[c].log)].json
            IN /\ MapHas(authSessions', id)
               /\ authSessions'[id].accessToken = tokenData.access_token
               /\ authSessions'[id].expiresAt = now' + tokenData.expires_in * 1000
               /\ LastOf(calls'[c].log).bearer = tokenData.access_token
    ]_vars

\* two refresh calls for the Session of one caller are in flight
TwoRefreshesInFlight ==
  \E c, d \in RaceCalls :
    /\ c # d
    /\ calls[c].pc = "refresh" /\ calls[d].pc = "refresh"
    /\ calls[c].sessionId = calls[d].sessionId

\* both refreshes of two concurrent tool calls have been answered: the one of
\* c first, with a token that has not expired since (so the refresh of d
\* was in flight when it was stored), then the one of d; the store holds
\* the token and the expiry of d
C17_Witness ==
  \E c, d \in RaceCalls :
    /\ c # d
    /\ calls[c].sessionId = calls[d].sessionId
    /\ Refreshed(calls[c], 1) /\ Refreshed(calls[d], 1)
    /\ calls[c].log[1].json.access_token[2] < calls[d].log[1].json.access_token[2]
    /\ calls[c].log[1].json.expires_in = 600
    /\ now < 600 * 1000
    /\ MapHas(authSessions, calls[d].sessionId)
    /\ authSessions[calls[d].sessionId].accessToken = calls[d].log[1].json.access_token
    /\ authSessions[calls[d].sessionId].accessToken # calls[c].log[1].json.access_token
    /\ authSessions[calls[d].sessionId].expiresAt = now + calls[d].log[1].json.expires_in * 1000

\* this step delivers a successful answer to the code exchange of the callback b
ExchangeSucceeds(b) ==
  /\ callbacks[b].pc = "exchange"
  /\ callbacks'[b].pc = "done"
  /\ callbacks'[b].response.status = 200

\* C18: authSessions changes only in a step that delivers a successful answer
\* to a refresh call or to a code exchange.  Every other step (the gate, a
\* handler, a callback rejected on arrival, a failed code exchange, a failed
\* refresh, a response being sent) leaves every stored Session as it is.
C18_SessionStoreWriters ==
  [][authSessions' # authSessions =>
       \/ \E c \in Calls : RefreshSucceeds(c)
       \/ \E b \in Callbacks : ExchangeSucceeds(b)
    ]_vars

\* a code exchange has failed while another caller's Session is stored: the
\* store holds that Session only
C18_Witness ==
  \E b \in Callbacks :
    /\ callbacks[b].pc = "done"
    /\ callbacks[b].response.status = 500
    /\ callbacks[b].exchanges = 1
    /\ authSessions # EmptyMap
    /\ ~MapHas(authSessions, callbacks[b].pendingAuth.sessionId)

SentNumber(x, default) == IF x.t = "number" /\ x.v # 0 THEN x.v ELSE default

\* the REST call was answered 200 with a JSON body
GotJson(entry) == entry.status = 200 /\ entry.json.t = "json"

\* C20: the REST calls of a fetch_tracks call are GETs, at most two.  The first
\* asks for /playlists/{playlistId}/tracks with offset 0 and limit 100 where
\* the argument is omitted, the given values otherwise, and a limit that is
\* never above 100.  The second exists only when the first was answered with a
\* page, asks /me/tracks/contains for exactly the track ids of that page, in
\* page order, and is issued as soon as the page arrives (after a token
\* refresh when the token has expired in between).  A call that returns its
\* result has issued exactly the two.
C20_FetchTracksCalls ==
  \A c \in Calls :
    calls[c].name = "fetch_tracks" =>
      LET cr == calls[c]
          r == RestCalls(cr.log)
      IN /\ Len(r) <= 2
         /\ \A i \in 1..Len(r) : r[i].method = "GET"
         /\ Len(r) >= 1 =>
              /\ cr.arguments.playlistId.t = "string"
              /\ r[1].endpoint =
                   <<"/playlists/", cr.arguments.playlistId.v,
                     "/tracks?offset=", SentNumber(cr.arguments.offset, 0),
                     "&limit=", SentNumber(cr.arguments.limit, 100)>>
              /\ r[1].endpoint[6] <= 100
         /\ Len(r) = 2 =>
              /\ GotJson(r[1])
              /\ r[2].endpoint =
                   <<"/me/tracks/contains?ids=", Join(r[1].json.v.items, ",")>>
         /\ (Len(r) = 1 /\ GotJson(r[1])) => LastOf(cr.log).kind = "refresh"
         /\ FetchTracksReturned(cr) => Len(r) = 2

\* fetch_tracks without offset and limit has returned: the page was asked for
\* with offset 0 and limit 100 and the saved-status check named its two tracks
C20_Witness ==
  \E c \in Calls :
    /\ FetchTracksReturned(calls[c])
    /\ calls[c].arguments.offset.t = "undefined"
    /\ calls[c].arguments.limit.t = "undefined"
    /\ Len(RestCalls(calls[c].log)) = 2
    /\ RestCalls(calls[c].log)[1].endpoint[4] = 0
    /\ RestCalls(calls[c].log)[1].endpoint[6] = 100
    /\ RestCalls(calls[c].log)[1].json.v.items = <<"t1", "t2">>
    /\ RestCalls(calls[c].log)[2].endpoint =
         <<"/me/tracks/contains?ids=", Join(<<"t1", "t2">>, ",")>>

\* a library call whose arguments the input schema and the zod parser accept
SchemaValidLibraryCall(cr) ==
  /\ cr.name \in {"add_to_library", "remove_from_library"}
  /\ cr.arguments.itemType.t = "string"
  /\ cr.arguments.itemType.v \in ItemTypeEnum
  /\ cr.arguments.itemId.t = "string"

\* the text a library call returns when its mutation went through
LibrarySuccess(cr) ==
  Content(<<(IF cr.name = "add_to_library" THEN "Successfully added "
             ELSE "Successfully removed "),
            cr.arguments.itemType.v,
            (IF cr.name = "add_to_library" THEN " to your library."
             ELSE " from your library.")>>, Undefined)

\* C21 as stated: for each of the six item types of the input schema, a
\* schema-valid library call of an authenticated caller that has ended has
\* issued exactly one REST call (unless the token refresh before it failed),
\* and when that call was answered with a 2xx status the result is the success
\* message.
C21_AsStated ==
  \A c \in Calls :
    LET cr == calls[c]
        rest == RestCalls(cr.log)
    IN (SchemaValidLibraryCall(cr) /\ cr.pc = "done" /\ ~Prompted(cr)
          /\ ~RefreshFailedFirst(cr)) =>
         /\ Len(rest) = 1
         /\ (rest[1].status >= 200 /\ rest[1].status <= 299) =>
              cr.result = LibrarySuccess(cr)

\* the key under which the search endpoint returns the items of a type
FacetOfType(type) ==
  CASE type = "track" -> "tracks"
    [] type = "album" -> "albums"
    [] type = "artist" -> "artists"
    [] type = "playlist" -> "playlists"
    [] type = "show" -> "shows"
    [] type = "episode" -> "episodes"

\* a search call that has returned search results
SearchReturned(cr) ==
  /\ cr.pc = "done"
  /\ cr.name = "search"
  /\ cr.result.kind = "content"
  /\ "results" \in DOMAIN cr.result.structured

\* C22 as stated: whenever search returns, for every type named in its types
\* argument whose array is in the upstream answer, the structured result has
\* an array for that facet with one projection per upstream item, in order.
C22_AsStated ==
  \A c \in Calls :
    LET cr == calls[c]
    IN (SearchReturned(cr) /\ cr.arguments.types.t = "array") =>
         LET found == LastOf(cr.log).json.v
             results == cr.result.structured.results
         IN \A i \in 1..Len(cr.arguments.types.v) :
              LET facet == FacetOfType(cr.arguments.types.v[i])
              IN facet \in DOMAIN found =>
                   /\ facet \in DOMAIN results
                   /\ Len(results[facet]) = Len(found[facet])
                   /\ \A k \in 1..Len(found[facet]) :
                        results[facet][k].id = found[facet][k]

\* the request awaits the answer of an outbound HTTP call
CallAwaits(c) == calls[c].pc \in {"refresh", "rest"}
CallbackAwaits(b) == callbacks[b].pc = "exchange"

\* C23: provided every outbound HTTP call is answered, a tool call or a
\* callback that awaits one ends with a result or an error, whatever the
\* other requests being served do: nothing but its own outbound calls holds
\* a request back.
C23_Completes ==
  /\ \A c \in RaceCalls : CallAwaits(c) ~> (calls[c].pc = "done")
  /\ \A b \in Callbacks : CallbackAwaits(b) ~> (callbacks[b].pc = "done")

\* a tool call that awaited a refresh and a REST call has ended while the
\* other tool call of the same caller still awaits its refresh
C23_Witness ==
  \E c, d \in RaceCalls :
    /\ c # d
    /\ calls[c].pc = "done"
    /\ Len(calls[c].log) = 2
    /\ calls[c].result.kind \in {"content", "error"}
    /\ calls[d].pc = "refresh"
    /\ calls[d].sessionId = calls[c].sessionId

\* the rows the widget shows under a section title (none when the section is
\* not rendered)
RowsShown(view, title) ==
  LET at == {i \in 1..Len(view.sections) : view.sections[i].title = title}
  IN IF at = {} THEN <<>> ELSE view.sections[CHOOSE i \in at : TRUE].rows

\* the items of a facet in the property bag (none when the facet is absent)
ItemsGiven(results, facet) ==
  IF facet \in DOMAIN results THEN results[facet] ELSE <<>>

\* C24 as stated: a rendered widget shows min(10, n) track rows, the first of
\* the n tracks it was given, and every artist, album and playlist item it
\* was given.
C24_AsStated ==
  widget.pc \in {"html", "react"} =>
    /\ RowsShown(widget.view, "Songs") = Slice(ItemsGiven(widget.results, "tracks"), 10)
    /\ RowsShown(widget.view, "Artists") = ItemsGiven(widget.results, "artists")
    /\ RowsShown(widget.view, "Albums") = ItemsGiven(widget.results, "albums")
    /\ RowsShown(widget.view, "Playlists") = ItemsGiven(widget.results, "playlists")

\* the callback requests being served that carry the state s and have issued
\* a token exchange, and those that have stored a Session
Exchanging(s) ==
  {b \in DOMAIN callbacks : CarriesState(callbacks[b], s) /\ callbacks[b].exchanges > 0}
Stored(s) ==
  {b \in DOMAIN callbacks :
     /\ CarriesState(callbacks[b], s)
     /\ callbacks[b].pc = "done"
     /\ callbacks[b].response.status = 200}

\* C25 as stated: among the callback requests being served, at most one has
\* issued a token exchange for a given state and at most one has stored a
\* Session for it.
C25_AsStated ==
  \A n \in 1..MaxStates :
    /\ Cardinality(Exchanging(ToString(n))) <= 1
    /\ Cardinality(Stored(ToString(n))) <= 1

\* C26 as stated: a callback that arrives with a state whose entry of
\* pendingAuthStates is older than ten minutes is rejected at once: it issues
\* no token exchange, and authSessions is never written for it.
C26_AsStated ==
  [][\A b \in Callbacks :
       (/\ CallbackArrives(b)
        /\ callbacks'[b].state.t = "string"
        /\ callbacks'[b].state.v \in Older(pendingAuthStates, now)) =>
         /\ callbacks'[b].pc = "done"
         /\ callbacks'[b].response.status = 400
         /\ callbacks'[b].exchanges = 0
    ]_vars

\* C27 as stated: the refresh token stored for a session is the one of the
\* last successful code exchange for it: a step that is not a successful
\* callback, the completion of a refresh that began before the callback
\* included, leaves every stored refresh token as it is.
C27_AsStated ==
  [][(~ \E b \in Callbacks : ExchangeSucceeds(b)) =>
       \A id \in DOMAIN authSessions :
         /\ HasSession(authSessions', id)
         /\ authSessions'[id].refreshToken = authSessions[id].refreshToken
    ]_vars

\* the session id the gate recorded when it issued the state of the callback
IssuedTo(cb) == issued[cb.state.v]

\* C28: a Session belongs to a caller the gate has prompted.  Every stored
\* entry of pendingAuthStates names the session id the gate recorded when it
\* issued the state; a callback that exchanges a code holds that session id;
\* every key of authSessions is a session id some state was issued to; and a
\* successful callback writes the Session of that session id and leaves the
\* Session of every other caller as it is.
C28_OwnSessionOnly ==
  [][/\ \A s \in DOMAIN pendingAuthStates' :
          /\ s \in DOMAIN issued'
          /\ pendingAuthStates'[s].sessionId = issued'[s]
     /\ \A b \in Callbacks :
          callbacks'[b].exchanges > 0 =>
            /\ callbacks'[b].state.v \in DOMAIN issued'
            /\ callbacks'[b].pendingAuth.sessionId = issued'[callbacks'[b].state.v]
     /\ \A id \in DOMAIN authSessions' : \E s \in DOMAIN issued' : issued'[s] = id
     /\ \A b \in Callbacks :
          ExchangeSucceeds(b) =>
            /\ HasSession(authSessions', IssuedTo(callbacks[b]))
            /\ authSessions'[IssuedTo(callbacks[b])].refreshToken =
                 callbacks'[b].tokenResponse.json.refresh_token
            /\ \A id \in SessionIds \ {IssuedTo(callbacks[b])} :
                 /\ HasSession(authSessions', id) = HasSession(authSessions, id)
                 /\ HasSession(authSessions, id) => authSessions'[id] = authSessions[id]
    ]_vars

\* two callers have authorized, each through the state the gate issued to it:
\* the store holds one Session for each, with the tokens of its own exchange
C28_Witness ==
  /\ DOMAIN authSessions = {"s1", "s2"}
  /\ consumed = {"1", "2"}
  /\ issued["1"] # issued["2"]
  /\ authSessions[issued["1"]].refreshToken # authSessions[issued["2"]].refreshToken
  /\ \E b \in Callbacks :
       /\ callbacks[b].pc = "done"
       /\ callbacks[b].response.status = 200
       /\ authSessions[IssuedTo(callbacks[b])].refreshToken =
            callbacks[b].tokenResponse.json.refresh_token

\* this step delivers a failure to the code exchange of the callback b
ExchangeFails(b) ==
  /\ callbacks[b].pc = "exchange"
  /\ callbacks'[b].pc = "done"
  /\ callbacks'[b].response.status # 200

\* C29: a failed code exchange is answered with the error page (status 500)
\* and leaves authSessions and pendingAuthStates as they are.  The entry of the
\* presented state is still stored after the lookup unless it was older than
\* ten minutes then, and as long as it is stored a callback that presents the
\* state with a code is accepted and issues a code exchange again.
C29_FailedExchange ==
  [][\A b \in Callbacks :
       /\ ExchangeFails(b) =>
            /\ callbacks'[b].response = Page(500, "Authentication Error")
            /\ authSessions' = authSessions
            /\ pendingAuthStates' = pendingAuthStates
       /\ (CallbackArrives(b) /\ callbacks'[b].pc = "exchange") =>
            (callbacks'[b].state.v \in DOMAIN pendingAuthStates'
               <=> callbacks'[b].state.v \notin Older(pendingAuthStates, now))
       /\ (/\ CallbackArrives(b)
           /\ ~Missing(callbacks'[b].code)
           /\ ~Truthy(callbacks'[b].error)
           /\ callbacks'[b].state.t = "string"
           /\ callbacks'[b].state.v \in DOMAIN pendingAuthStates) =>
            /\ callbacks'[b].pc = "exchange"
            /\ callbacks'[b].exchanges = 1
    ]_vars

\* a code exchange has failed: the error page is the response, the caller has
\* no Session, and the state is still stored for a later callback
C29_Witness ==
  \E b \in Callbacks :
    /\ callbacks[b].pc = "done"
    /\ callbacks[b].response = Page(500, "Authentication Error")
    /\ callbacks[b].state.v \in DOMAIN pendingAuthStates
    /\ ~HasSession(authSessions, callbacks[b].pendingAuth.sessionId)
    /\ pendingAuthStates[callbacks[b].state.v] = callbacks[b].pendingAuth

\* a transport that an SSE connection registered and that has neither closed
\* nor failed to connect
Registered(t) == transports[t] \in {"connecting", "open"}

PostArrives(p) == posts[p].pc = "idle" /\ posts'[p].pc = "done"

\* C30: a POST to the message endpoint is handed to a transport only if its
\* sessionId names a transport that an SSE connection registered and that has
\* not closed, and then to that transport; a missing sessionId is answered
\* 400, an unknown, closed or failed one 404; the registry holds exactly the
\* transports that were registered and have neither closed nor failed to
\* connect, so a transport leaves it when it closes or when connecting fails.
C30_DispatchRegistered ==
  [][/\ \A p \in Posts :
          PostArrives(p) =>
            LET q == posts'[p]
                known == /\ ~Missing(q.sessionId)
                         /\ q.sessionId.v \in TransportIds
                         /\ Registered(q.sessionId.v)
            IN /\ Missing(q.sessionId) =>
                    /\ q.response = Page(400, "Missing sessionId query parameter")
                    /\ q.dispatched = {}
               /\ (~Missing(q.sessionId) /\ ~known) =>
                    /\ q.response = Page(404, "Unknown session")
                    /\ q.dispatched = {}
               /\ known => q.dispatched = {q.sessionId.v}
     /\ DOMAIN sessionRecords' = {t \in TransportIds : transports'[t] \in {"connecting", "open"}}
     /\ \A t \in DOMAIN sessionRecords' : sessionRecords'[t].transport = t
    ]_vars

C30_Witness ==
  \E p, q \in Posts, t, u \in TransportIds :
    /\ posts[p].pc = "done"
    /\ posts[p].dispatched = {t}
    /\ transports[t] = "open"
    /\ posts[q].pc = "done"
    /\ posts[q].sessionId = Str(u)
    /\ posts[q].response = Page(404, "Unknown session")
    /\ transports[u] \in {"closed", "failed"}
    /\ ~MapHas(sessionRecords, u)

====
